---- MODULE Spec2Model ----
(***************************************************************************)
(* Model of the tree-sitter analysis scripts                               *)
(*   src/tree-sitter-tests/test_complexity.py  (complexity metrics)        *)
(*   src/tree-sitter-tests/test_dead_code.py   (dead-code resolver)        *)
(*                                                                         *)
(* A syntax tree is a sequence of nodes; node i records its kind, the      *)
(* index of its parent (0 for the root), the text of its name field, the   *)
(* text of its operator field and the field name under which its parent    *)
(* holds it.  The children of a node are the nodes that name it as parent, *)
(* in index order.  Kinds that occur in none of the analyzers' tables      *)
(* (block, identifier, punctuation ...) are represented by the neutral     *)
(* kinds of the palettes below.                                            *)
(*                                                                         *)
(* Names are sequences of one-character strings so that prefixes can be    *)
(* tested and names concatenated.                                          *)
(***************************************************************************)
EXTENDS Integers, Sequences, FiniteSets, TLC

VARIABLES
    lang,        \* language of the parsed file: "python" or "typescript"
    tree,        \* the syntax tree handed over by the parser
    analysis,    \* FileAnalysis of the complexity analyzer's analyze(), or NotRun
    again,       \* FileAnalysis of a second analyze() on the same analyzer object
    nested,      \* tree of a function with n conditionals nested in each other
    sequential,  \* tree of a function with the same n conditionals in sequence
    pairResult,  \* metrics of the two functions above, or NotRun
    files,       \* the files handed to the dead-code detector, in list order
    project,     \* outcome of DeadCodeDetector.analyze_project(files)
    single,      \* outcome of DeadCodeDetector.analyze_single_file(file)
    singleAgain, \* outcome of a second analyze_single_file on the same file
    metrics,     \* a FunctionMetrics object
    detections,  \* number of detect_smells() calls made on metrics
    rating,      \* what complexity_rating() returned for metrics, or NotRated
    extraction   \* FileAnalysis of a dead-code analyzer's analyze() on tree, once done

cxVars == <<lang, tree, analysis, again>>
chainVars == <<nested, sequential, pairResult>>
deadVars == <<files, project, single, singleAgain>>
fmVars == <<metrics, detections, rating>>
vars == <<lang, tree, analysis, again, nested, sequential, pairResult,
          files, project, single, singleAgain, metrics, detections, rating,
          extraction>>

\* ---------------------------------------------------------------------------
\* Bounds
\* ---------------------------------------------------------------------------
\* Largest number of nodes of the tree of SpecCx (the module node included).
MaxNodes == 5
\* Largest number of nodes of the Python tree of SpecLoop: room for a function
\* with a loop that holds an if/elif/else chain.
MaxLoopNodes == 6
\* Largest number of conditionals of the two functions of SpecChain.
MaxChain == 3
\* Largest number of linear statements added to each function of SpecChain.
MaxLinear == 1
\* Largest number of files of a project.
MaxFiles == 2
\* Largest number of definitions, of references and of imports of a project.
MaxDefs == 2
MaxRefs == 2
MaxImports == 1
\* Largest number of nodes of the tree of SpecWide.
MaxWideNodes == 4
\* Largest cyclomatic and cognitive complexity of the object of SpecMetrics:
\* their sum passes every band of complexity_rating.
MaxCyclomatic == 16
MaxCognitive == 16
\* How far below and above its threshold a metric of SpecMetrics goes.
Margin == 1
\* Number of detect_smells() calls on the object of SpecMetrics.
\* nodes of the tree of a file handed to a dead-code analyzer
MaxSourceNodes == 16

MaxDetections == 2

\* ---------------------------------------------------------------------------
\* Values
\* ---------------------------------------------------------------------------
NONE == <<>>        \* an absent name or operator (child_by_field_name gave None)
NoField == ""       \* the node is held under no field of its parent
\* FileAnalysis of test_complexity.py: functions and parse_errors start as empty
\* lists; analyze() appends to functions only and nothing ever writes
\* parse_errors.  done tells whether analyze() has returned the value.
NotRun == [done |-> FALSE, functions |-> <<>>, parse_errors |-> <<>>]
Ran(functions) == [done |-> TRUE, functions |-> functions, parse_errors |-> <<>>]
NotRated == "not_rated"

\* Operator texts.
OpAnd == <<"&", "&">>
OpOr == <<"|", "|">>
OpPlus == <<"+">>

Node(type, parent, name, operator, field) ==
    [type |-> type, parent |-> parent, name |-> name, operator |-> operator,
     field |-> field]

Plain(type, parent) == Node(type, parent, NONE, NONE, NoField)

Min(S) == CHOOSE x \in S : \A y \in S : x <= y
Max(S) == CHOOSE x \in S : \A y \in S : x >= y
Max2(a, b) == IF a >= b THEN a ELSE b

\* The children of node n of tree t, as a set of indices (visited in index order).
Children(t, n) == {j \in 1..Len(t) : t[j].parent = n}

\* node.child_by_field_name(f): the first child held under field f, or 0.
ChildByField(t, n, f) ==
    LET S == {j \in Children(t, n) : t[j].field = f}
    IN  IF S = {} THEN 0 ELSE Min(S)

\* node.start_point[0] + 1 and node.end_point[0] + 1.  The source texts of the
\* model put every node on a line of its own, in tree order: node n starts on
\* line n and ends on the line of its last descendant.
RECURSIVE LastDescendant(_, _)
LastDescendant(t, n) ==
    IF Children(t, n) = {} THEN n ELSE LastDescendant(t, Max(Children(t, n)))

StartLine(t, n) == n
EndLine(t, n) == LastDescendant(t, n)

\* ---------------------------------------------------------------------------
\* test_complexity.py: thresholds and language tables
\* ---------------------------------------------------------------------------
PYTHON_DECISION_POINTS_NoElif ==
    {"if_statement", "for_statement", "while_statement",
     "except_clause", "with_statement", "boolean_operator",
     "conditional_expression", "list_comprehension",
     "dictionary_comprehension", "set_comprehension", "generator_expression"}

PYTHON_DECISION_POINTS ==
    {"if_statement", "elif_clause", "for_statement", "while_statement",
     "except_clause", "with_statement", "boolean_operator",
     "conditional_expression", "list_comprehension",
     "dictionary_comprehension", "set_comprehension", "generator_expression"}

PYTHON_NESTING_NODES ==
    {"if_statement", "for_statement", "while_statement", "try_statement",
     "with_statement", "function_definition", "class_definition"}

TS_DECISION_POINTS ==
    {"if_statement", "for_statement", "for_in_statement", "while_statement",
     "do_statement", "switch_case", "catch_clause", "binary_expression",
     "ternary_expression"}

TS_NESTING_NODES ==
    {"if_statement", "for_statement", "for_in_statement", "while_statement",
     "do_statement", "try_statement", "switch_statement",
     "function_declaration", "method_definition", "arrow_function",
     "class_declaration"}

MAX_CYCLOMATIC_COMPLEXITY == 10
MAX_COGNITIVE_COMPLEXITY == 15
MAX_NESTING_DEPTH == 4
MAX_FUNCTION_LINES == 50
MAX_PARAMETERS == 5

\* ---------------------------------------------------------------------------
\* FunctionMetrics
\* ---------------------------------------------------------------------------
\* The dataclass constructor with __post_init__: the three complexity fields
\* take their defaults, line_count is computed from the two line numbers.
FunctionMetrics(name, start_line, end_line, parameter_count) ==
    [name |-> name,
     start_line |-> start_line,
     end_line |-> end_line,
     cyclomatic_complexity |-> 1,
     cognitive_complexity |-> 0,
     max_nesting_depth |-> 0,
     parameter_count |-> parameter_count,
     line_count |-> end_line - start_line + 1,
     code_smells |-> <<>>]

\* A descriptor is the formatted string "<text>: <value> ... (threshold: <t>)";
\* it is kept as its three parts.
Smell(text, value, threshold) ==
    [text |-> text, value |-> value, threshold |-> threshold]

detect_smells_AtThreshold(self) ==
    LET s0 == <<>>
        s1 == IF self.cyclomatic_complexity > MAX_CYCLOMATIC_COMPLEXITY
              THEN Append(s0, Smell("High cyclomatic complexity",
                                    self.cyclomatic_complexity,
                                    MAX_CYCLOMATIC_COMPLEXITY))
              ELSE s0
        s2 == IF self.cognitive_complexity > MAX_COGNITIVE_COMPLEXITY
              THEN Append(s1, Smell("High cognitive complexity",
                                    self.cognitive_complexity,
                                    MAX_COGNITIVE_COMPLEXITY))
              ELSE s1
        s3 == IF self.max_nesting_depth >= MAX_NESTING_DEPTH
              THEN Append(s2, Smell("Deep nesting", self.max_nesting_depth,
                                    MAX_NESTING_DEPTH))
              ELSE s2
        s4 == IF self.line_count > MAX_FUNCTION_LINES
              THEN Append(s3, Smell("Long function", self.line_count,
                                    MAX_FUNCTION_LINES))
              ELSE s3
    IN  IF self.parameter_count > MAX_PARAMETERS
        THEN Append(s4, Smell("Too many parameters", self.parameter_count,
                              MAX_PARAMETERS))
        ELSE s4

\* detect_smells: the list is emptied, then one descriptor is appended per
\* metric above its threshold.  The value is the new self.code_smells.
detect_smells(self) ==
    LET s0 == <<>>
        s1 == IF self.cyclomatic_complexity > MAX_CYCLOMATIC_COMPLEXITY
              THEN Append(s0, Smell("High cyclomatic complexity",
                                    self.cyclomatic_complexity,
                                    MAX_CYCLOMATIC_COMPLEXITY))
              ELSE s0
        s2 == IF self.cognitive_complexity > MAX_COGNITIVE_COMPLEXITY
              THEN Append(s1, Smell("High cognitive complexity",
                                    self.cognitive_complexity,
                                    MAX_COGNITIVE_COMPLEXITY))
              ELSE s1
        s3 == IF self.max_nesting_depth > MAX_NESTING_DEPTH
              THEN Append(s2, Smell("Deep nesting", self.max_nesting_depth,
                                    MAX_NESTING_DEPTH))
              ELSE s2
        s4 == IF self.line_count > MAX_FUNCTION_LINES
              THEN Append(s3, Smell("Long function", self.line_count,
                                    MAX_FUNCTION_LINES))
              ELSE s3
    IN  IF self.parameter_count > MAX_PARAMETERS
        THEN Append(s4, Smell("Too many parameters", self.parameter_count,
                              MAX_PARAMETERS))
        ELSE s4

\* ---------------------------------------------------------------------------
\* FunctionMetrics.complexity_rating
\* ---------------------------------------------------------------------------
complexity_rating_Floor(cyclomatic, cognitive) ==
    LET avg == (cyclomatic + cognitive) \div 2
    IN  IF avg <= 3 THEN "LOW"
        ELSE IF avg <= 8 THEN "MEDIUM"
        ELSE IF avg <= 15 THEN "HIGH"
        ELSE "VERY HIGH"

\* avg = (cyclomatic + cognitive) / 2 is a float; the comparisons avg <= 3,
\* avg <= 8 and avg <= 15 are made here on 2 * avg, which is exact.
complexity_rating(cyclomatic, cognitive) ==
    LET avg2 == cyclomatic + cognitive
    IN  IF avg2 <= 2 * 3 THEN "LOW"
        ELSE IF avg2 <= 2 * 8 THEN "MEDIUM"
        ELSE IF avg2 <= 2 * 15 THEN "HIGH"
        ELSE "VERY HIGH"

\* ---------------------------------------------------------------------------
\* PythonComplexityAnalyzer
\* ---------------------------------------------------------------------------
\* _find_functions_recursive: preorder; a function_definition without a name
\* field is not recorded, its children are visited all the same.
RECURSIVE Py_find_functions_recursive(_, _), Py_find_functions_kids(_, _)
Py_find_functions_recursive_SkipSubtree(t, n) ==
    IF t[n].type = "function_definition" /\ t[n].name = NONE
    THEN <<>>
    ELSE (IF t[n].type = "function_definition"
             THEN <<[node |-> n, name |-> t[n].name]>>
             ELSE <<>>)
         \o Py_find_functions_kids(t, Children(t, n))

Py_find_functions_recursive(t, n) ==
    (IF t[n].type = "function_definition" /\ t[n].name # NONE
        THEN <<[node |-> n, name |-> t[n].name]>>
        ELSE <<>>)
    \o Py_find_functions_kids(t, Children(t, n))

Py_find_functions_kids(t, S) ==
    IF S = {} THEN <<>>
    ELSE LET c == Min(S)
         IN  Py_find_functions_recursive(t, c) \o Py_find_functions_kids(t, S \ {c})

Py_find_functions(t) == Py_find_functions_recursive(t, 1)

\* calculate_cyclomatic: traverse adds 1 for each node of a decision kind.
RECURSIVE Py_cyclomatic_traverse(_, _), Py_cyclomatic_kids(_, _)
Py_cyclomatic_traverse(t, n) ==
    (IF t[n].type \in PYTHON_DECISION_POINTS THEN 1 ELSE 0)
    + Py_cyclomatic_kids(t, Children(t, n))

Py_cyclomatic_kids_StopAtFunctions(t, S) ==
    IF S = {} THEN 0
    ELSE LET c == Min(S)
         IN  (IF t[c].type = "function_definition" THEN 0
              ELSE Py_cyclomatic_traverse(t, c))
             + Py_cyclomatic_kids(t, S \ {c})

Py_cyclomatic_kids(t, S) ==
    IF S = {} THEN 0
    ELSE LET c == Min(S)
         IN  Py_cyclomatic_traverse(t, c) + Py_cyclomatic_kids(t, S \ {c})

Py_calculate_cyclomatic_NoBase(t, node) == Py_cyclomatic_traverse(t, node)

Py_calculate_cyclomatic(t, node) == 1 + Py_cyclomatic_traverse(t, node)

\* calculate_cognitive: traverse(n, nesting_level).
Py_structural_increment(type) ==
    IF type \in {"if_statement", "elif_clause", "for_statement",
                 "while_statement", "except_clause", "boolean_operator",
                 "conditional_expression", "else_clause"}
    THEN 1 ELSE 0

Py_nesting_increment_None(type, nesting_level) == 0

Py_nesting_increment(type, nesting_level) ==
    IF type \in {"if_statement", "elif_clause", "for_statement",
                 "while_statement", "except_clause", "conditional_expression"}
    THEN nesting_level ELSE 0

Py_new_nesting_Flat(type, nesting_level) == nesting_level

Py_new_nesting(type, nesting_level) ==
    IF type \in {"if_statement", "for_statement", "while_statement",
                 "try_statement", "with_statement"}
    THEN nesting_level + 1 ELSE nesting_level

RECURSIVE Py_cognitive_traverse(_, _, _), Py_cognitive_kids(_, _, _)
Py_cognitive_traverse(t, n, nesting_level) ==
    Py_structural_increment(t[n].type)
    + Py_nesting_increment(t[n].type, nesting_level)
    + Py_cognitive_kids(t, Children(t, n), Py_new_nesting(t[n].type, nesting_level))

Py_cognitive_kids(t, S, level) ==
    IF S = {} THEN 0
    ELSE LET c == Min(S)
         IN  Py_cognitive_traverse(t, c, level) + Py_cognitive_kids(t, S \ {c}, level)

Py_calculate_cognitive_Base1(t, node) == 1 + Py_cognitive_traverse(t, node, 0)

Py_calculate_cognitive(t, node) == Py_cognitive_traverse(t, node, 0)

\* calculate_max_nesting: traverse(n, current_depth); the result is the largest
\* new_depth seen at any node of the subtree, the node itself included.
RECURSIVE Py_nesting_traverse(_, _, _), Py_nesting_kids(_, _, _)
Py_nesting_traverse(t, n, current_depth) ==
    LET new_depth == current_depth
                     + (IF t[n].type \in PYTHON_NESTING_NODES THEN 1 ELSE 0)
    IN  Max2(new_depth, Py_nesting_kids(t, Children(t, n), new_depth))

Py_nesting_kids_Sum(t, S, depth) ==
    IF S = {} THEN 0
    ELSE LET c == Min(S)
         IN  Py_nesting_traverse(t, c, depth) + Py_nesting_kids(t, S \ {c}, depth)

Py_nesting_kids(t, S, depth) ==
    IF S = {} THEN 0
    ELSE LET c == Min(S)
         IN  Max2(Py_nesting_traverse(t, c, depth), Py_nesting_kids(t, S \ {c}, depth))

Py_calculate_max_nesting(t, node) == Py_nesting_traverse(t, node, 0)

\* count_parameters: the children of the parameters field that are parameters.
Py_count_parameters(t, func_node) ==
    LET params_node == ChildByField(t, func_node, "parameters")
    IN  IF params_node = 0 THEN 0
        ELSE Cardinality({c \in Children(t, params_node) :
                t[c].type \in {"identifier", "typed_parameter", "default_parameter",
                               "typed_default_parameter", "list_splat_pattern",
                               "dictionary_splat_pattern"}})

\* analyze: one FunctionMetrics per (node, name) of find_functions, in order:
\* constructed, the three complexities assigned, then detect_smells().
Py_metrics(t, f) ==
    LET made == FunctionMetrics(f.name, StartLine(t, f.node), EndLine(t, f.node),
                                Py_count_parameters(t, f.node))
        set == [made EXCEPT
                  !.cyclomatic_complexity = Py_calculate_cyclomatic(t, f.node),
                  !.cognitive_complexity = Py_calculate_cognitive(t, f.node),
                  !.max_nesting_depth = Py_calculate_max_nesting(t, f.node)]
    IN  [set EXCEPT !.code_smells = detect_smells(set)]

Py_analyze_Accumulating(t) ==
    LET fs == Py_find_functions(t)
    IN  analysis.functions \o [i \in 1..Len(fs) |-> Py_metrics(t, fs[i])]

Py_analyze(t) ==
    LET fs == Py_find_functions(t)
    IN  [i \in 1..Len(fs) |-> Py_metrics(t, fs[i])]

\* ---------------------------------------------------------------------------
\* TypeScriptComplexityAnalyzer
\* ---------------------------------------------------------------------------
\* The arrow functions a lexical_declaration assigns: (value node, name) of each
\* variable_declarator child with a name and an arrow_function value.
RECURSIVE Ts_arrow_functions(_, _)
Ts_arrow_functions(t, S) ==
    IF S = {} THEN <<>>
    ELSE LET c == Min(S)
             value_node == ChildByField(t, c, "value")
         IN  (IF /\ t[c].type = "variable_declarator"
                 /\ t[c].name # NONE
                 /\ value_node # 0
                 /\ t[value_node].type = "arrow_function"
                 THEN <<[node |-> value_node, name |-> t[c].name]>>
                 ELSE <<>>)
             \o Ts_arrow_functions(t, S \ {c})

\* _find_functions_recursive(node, functions, class_name)
RECURSIVE Ts_find_functions_recursive(_, _, _), Ts_find_functions_kids(_, _, _)
Ts_find_functions_recursive(t, n, class_name) ==
    LET current_class ==
            IF t[n].type = "class_declaration" /\ t[n].name # NONE
            THEN t[n].name ELSE class_name
        found ==
            IF t[n].type = "function_declaration"
            THEN IF t[n].name # NONE
                 THEN <<[node |-> n, name |-> t[n].name]>> ELSE <<>>
            ELSE IF t[n].type = "lexical_declaration"
            THEN Ts_arrow_functions(t, Children(t, n))
            ELSE IF t[n].type = "method_definition"
            THEN IF t[n].name # NONE
                 THEN <<[node |-> n,
                         name |-> IF current_class # NONE
                                  THEN current_class \o <<".">> \o t[n].name
                                  ELSE t[n].name]>>
                 ELSE <<>>
            ELSE <<>>
    IN  found \o Ts_find_functions_kids(t, Children(t, n), current_class)

Ts_find_functions_kids(t, S, class_name) ==
    IF S = {} THEN <<>>
    ELSE LET c == Min(S)
         IN  Ts_find_functions_recursive(t, c, class_name)
             \o Ts_find_functions_kids(t, S \ {c}, class_name)

Ts_find_functions(t) == Ts_find_functions_recursive(t, 1, NONE)

\* A binary_expression counts only when its operator is && or ||.
Ts_is_logical(node) == node.operator # NONE /\ node.operator \in {OpAnd, OpOr}

RECURSIVE Ts_cyclomatic_traverse(_, _), Ts_cyclomatic_kids(_, _)
Ts_cyclomatic_traverse_AnyBinary(t, n) ==
    (IF t[n].type \in TS_DECISION_POINTS THEN 1 ELSE 0)
    + Ts_cyclomatic_kids(t, Children(t, n))

Ts_cyclomatic_traverse(t, n) ==
    (IF t[n].type \in TS_DECISION_POINTS
        THEN IF t[n].type = "binary_expression"
             THEN IF Ts_is_logical(t[n]) THEN 1 ELSE 0
             ELSE 1
        ELSE 0)
    + Ts_cyclomatic_kids(t, Children(t, n))

Ts_cyclomatic_kids(t, S) ==
    IF S = {} THEN 0
    ELSE LET c == Min(S)
         IN  Ts_cyclomatic_traverse(t, c) + Ts_cyclomatic_kids(t, S \ {c})

Ts_calculate_cyclomatic(t, node) == 1 + Ts_cyclomatic_traverse(t, node)

Ts_structural_increment(node) ==
    IF node.type \in {"if_statement", "for_statement", "for_in_statement",
                      "while_statement", "do_statement", "catch_clause",
                      "switch_case", "ternary_expression", "else_clause"}
    THEN 1
    ELSE IF node.type = "binary_expression" /\ Ts_is_logical(node) THEN 1
    ELSE 0

Ts_nesting_increment(type, nesting_level) ==
    IF type \in {"if_statement", "for_statement", "for_in_statement",
                 "while_statement", "do_statement", "catch_clause",
                 "ternary_expression"}
    THEN nesting_level ELSE 0

Ts_new_nesting(type, nesting_level) ==
    IF type \in {"if_statement", "for_statement", "for_in_statement",
                 "while_statement", "do_statement", "try_statement",
                 "switch_statement"}
    THEN nesting_level + 1 ELSE nesting_level

RECURSIVE Ts_cognitive_traverse(_, _, _), Ts_cognitive_kids(_, _, _)
Ts_cognitive_traverse(t, n, nesting_level) ==
    Ts_structural_increment(t[n])
    + Ts_nesting_increment(t[n].type, nesting_level)
    + Ts_cognitive_kids(t, Children(t, n), Ts_new_nesting(t[n].type, nesting_level))

Ts_cognitive_kids(t, S, level) ==
    IF S = {} THEN 0
    ELSE LET c == Min(S)
         IN  Ts_cognitive_traverse(t, c, level) + Ts_cognitive_kids(t, S \ {c}, level)

Ts_calculate_cognitive(t, node) == Ts_cognitive_traverse(t, node, 0)

RECURSIVE Ts_nesting_traverse(_, _, _), Ts_nesting_kids(_, _, _)
Ts_nesting_traverse(t, n, current_depth) ==
    LET new_depth == current_depth
                     + (IF t[n].type \in TS_NESTING_NODES THEN 1 ELSE 0)
    IN  Max2(new_depth, Ts_nesting_kids(t, Children(t, n), new_depth))

Ts_nesting_kids(t, S, depth) ==
    IF S = {} THEN 0
    ELSE LET c == Min(S)
         IN  Max2(Ts_nesting_traverse(t, c, depth), Ts_nesting_kids(t, S \ {c}, depth))

Ts_calculate_max_nesting(t, node) == Ts_nesting_traverse(t, node, 0)

\* count_parameters: the parameters field, or else the first formal_parameters
\* child.
Ts_count_parameters(t, func_node) ==
    LET by_field == ChildByField(t, func_node, "parameters")
        formal == {c \in Children(t, func_node) : t[c].type = "formal_parameters"}
        params_node == IF by_field # 0 THEN by_field
                       ELSE IF formal # {} THEN Min(formal) ELSE 0
    IN  IF params_node = 0 THEN 0
        ELSE Cardinality({c \in Children(t, params_node) :
                t[c].type \in {"required_parameter", "optional_parameter",
                               "rest_parameter", "identifier"}})

Ts_metrics(t, f) ==
    LET made == FunctionMetrics(f.name, StartLine(t, f.node), EndLine(t, f.node),
                                Ts_count_parameters(t, f.node))
        set == [made EXCEPT
                  !.cyclomatic_complexity = Ts_calculate_cyclomatic(t, f.node),
                  !.cognitive_complexity = Ts_calculate_cognitive(t, f.node),
                  !.max_nesting_depth = Ts_calculate_max_nesting(t, f.node)]
    IN  [set EXCEPT !.code_smells = detect_smells(set)]

Ts_analyze(t) ==
    LET fs == Ts_find_functions(t)
    IN  [i \in 1..Len(fs) |-> Ts_metrics(t, fs[i])]

\* main: the analyzer class is chosen per file (sample_python.py is analyzed
\* with the Python analyzer, sample_typescript.ts with the TypeScript one).
FindFunctions(l, t) ==
    IF l = "python" THEN Py_find_functions(t) ELSE Ts_find_functions(t)

Analyze(l, t) == IF l = "python" THEN Py_analyze(t) ELSE Ts_analyze(t)

\* ---------------------------------------------------------------------------
\* test_dead_code.py: Definition, Reference, FileAnalysis
\* ---------------------------------------------------------------------------
\* A file is its path (f.endswith('.py') is ext = "py"), whether its bytes can
\* be read and decoded, and what the three extraction passes of its analyzer
\* find in it: the definitions and the references in source order and the
\* imports dictionary (imported name -> module).
Definition(name, kind, line, is_exported, is_private, parent_class) ==
    [name |-> name, kind |-> kind, line |-> line, is_exported |-> is_exported,
     is_private |-> is_private, parent_class |-> parent_class]

Reference(name, line, context) == [name |-> name, line |-> line, context |-> context]

FileAnalysis(file_path, definitions, references, imports) ==
    [file_path |-> file_path, definitions |-> definitions,
     references |-> references, imports |-> imports]

StartsWithUnderscore_Inside(name) ==
    \E i \in DOMAIN name : i > 1 /\ name[i] = "_"

\* name.startswith('_')
StartsWithUnderscore(name) == Len(name) > 0 /\ name[1] = "_"

EndsWith(file_path, ext) == file_path.ext = ext

Supported(file_path) == EndsWith(file_path, "py") \/ EndsWith(file_path, "ts")

\* PythonAnalyzer.analyze / TypeScriptAnalyzer.analyze: Path.read_bytes and
\* the decoding of the spans raise on a file that cannot be read; nothing in
\* either analyzer catches it.
Raises(file) == ~file.readable

PythonAnalyzer_analyze(file) ==
    FileAnalysis(file.path, file.definitions, file.references, file.imports)

TypeScriptAnalyzer_analyze(file) ==
    FileAnalysis(file.path, file.definitions, file.references, file.imports)

AnalyzeFile(file) ==
    IF EndsWith(file.path, "py") THEN PythonAnalyzer_analyze(file)
    ELSE TypeScriptAnalyzer_analyze(file)

\* The names the identifier branch of _extract_references leaves out.
PY_SKIPPED_NAMES ==
    {<<"N", "o", "n", "e">>,
     <<"T", "r", "u", "e">>,
     <<"F", "a", "l", "s", "e">>,
     <<"s", "e", "l", "f">>,
     <<"c", "l", "s">>}
TS_SKIPPED_NAMES ==
    {<<"u", "n", "d", "e", "f", "i", "n", "e", "d">>,
     <<"n", "u", "l", "l">>,
     <<"t", "r", "u", "e">>,
     <<"f", "a", "l", "s", "e">>,
     <<"t", "h", "i", "s">>,
     <<"s", "u", "p", "e", "r">>,
     <<"c", "o", "n", "s", "o", "l", "e">>,
     <<"p", "r", "o", "c", "e", "s", "s">>,
     <<"r", "e", "q", "u", "i", "r", "e">>,
     <<"m", "o", "d", "u", "l", "e">>,
     <<"e", "x", "p", "o", "r", "t", "s">>}

\* ---------------------------------------------------------------------------
\* test_dead_code.py: the three extraction passes over a syntax tree
\* ---------------------------------------------------------------------------
\* The text of a node (source[node.start_byte:node.end_byte].decode()) is its
\* name, a sequence of characters; children are visited in index order.
RECURSIVE Py_extract_definitions(_, _, _, _)
RECURSIVE Py_extract_definitions_kids(_, _, _, _)
\* PythonAnalyzer._extract_definitions: found_so_far is the FileAnalysis
\* (analysis) being filled; the value is the FileAnalysis after the call.
Py_extract_definitions(t, node, found_so_far, parent_class) ==
    LET type == t[node].type
        name_node == ChildByField(t, node, "name")
        line == StartLine(t, node)
        recurse(a) == Py_extract_definitions_kids(t, Children(t, node), a, parent_class)
    IN  IF type = "function_definition" THEN
            IF name_node # 0
            THEN LET name == t[name_node].name
                     is_private == StartsWithUnderscore(name)
                 IN  recurse([found_so_far EXCEPT !.definitions = Append(@,
                        Definition(name,
                                   IF parent_class # NONE THEN "method" ELSE "function",
                                   line, FALSE, is_private, parent_class))])
            ELSE recurse(found_so_far)
        ELSE IF type = "class_definition" THEN
            IF name_node # 0
            THEN LET name == t[name_node].name
                     body == ChildByField(t, node, "body")
                     added == [found_so_far EXCEPT !.definitions = Append(@,
                                  Definition(name, "class", line, FALSE, FALSE, NONE))]
                 IN  IF body # 0
                     THEN Py_extract_definitions_kids(t, Children(t, body), added, name)
                     ELSE added
            ELSE found_so_far    \* the loop at the end skips the children of a class
        ELSE IF type = "expression_statement" THEN
            LET assign == IF Children(t, node) = {} THEN 0 ELSE Min(Children(t, node))
                left == IF assign # 0 /\ t[assign].type = "assignment"
                        THEN ChildByField(t, assign, "left") ELSE 0
                name == IF left # 0 THEN t[left].name ELSE NONE
                LowerCase ==
                    {"a", "b", "c", "d", "e", "f", "g", "h", "i", "j", "k", "l", "m",
                     "n", "o", "p", "q", "r", "s", "t", "u", "v", "w", "x", "y", "z"}
                UpperCase ==
                    {"A", "B", "C", "D", "E", "F", "G", "H", "I", "J", "K", "L", "M",
                     "N", "O", "P", "Q", "R", "S", "T", "U", "V", "W", "X", "Y", "Z"}
                lower == {i \in DOMAIN name : name[i] \in LowerCase}
                upper == {i \in DOMAIN name : name[i] \in UpperCase}
                \* name.isupper() or '_' in name and name == name.upper()
                constant == \/ upper # {} /\ lower = {}
                            \/ (\E i \in DOMAIN name : name[i] = "_") /\ lower = {}
            IN  IF left # 0 /\ t[left].type = "identifier" /\ constant
                THEN recurse([found_so_far EXCEPT !.definitions = Append(@,
                        Definition(name, "constant", line, FALSE, FALSE, NONE))])
                ELSE recurse(found_so_far)
        ELSE recurse(found_so_far)

Py_extract_definitions_kids(t, S, found_so_far, parent_class) ==
    IF S = {} THEN found_so_far
    ELSE LET child == Min(S)
         IN  Py_extract_definitions_kids(t, S \ {child},
                Py_extract_definitions(t, child, found_so_far, parent_class),
                parent_class)

\* PythonAnalyzer._extract_references, from node on: the tree is held in
\* preorder, so the visit of a node and then of its children in order is the
\* visit of the nodes in index order.
RECURSIVE Py_extract_references(_, _)
Py_extract_references_NoObject(t, node) ==
    IF node > Len(t) THEN <<>>
    ELSE
    LET type == t[node].type
        line == StartLine(t, node)
        func == ChildByField(t, node, "function")
        attr == IF func # 0 THEN ChildByField(t, func, "attribute") ELSE 0
        obj == IF func # 0 THEN ChildByField(t, func, "object") ELSE 0
        parent == t[node].parent
        found ==
            IF type = "call" THEN
                IF func # 0 /\ t[func].type = "identifier"
                THEN <<Reference(t[func].name, line, "call")>>
                ELSE IF func # 0 /\ t[func].type = "attribute"
                THEN (IF attr # 0 THEN <<Reference(t[attr].name, line, "call")>>
                      ELSE <<>>)
                ELSE <<>>
            ELSE IF type = "identifier" THEN
                IF /\ parent # 0
                   /\ t[parent].type \notin
                         {"function_definition", "class_definition",
                          "import_from_statement", "import_statement",
                          "assignment", "parameter"}
                   /\ t[node].name \notin PY_SKIPPED_NAMES
                THEN <<Reference(t[node].name, line, "access")>>
                ELSE <<>>
            ELSE <<>>
    IN  found \o Py_extract_references(t, node + 1)

Py_extract_references(t, node) ==
    IF node > Len(t) THEN <<>>
    ELSE
    LET type == t[node].type
        line == StartLine(t, node)
        func == ChildByField(t, node, "function")
        attr == IF func # 0 THEN ChildByField(t, func, "attribute") ELSE 0
        obj == IF func # 0 THEN ChildByField(t, func, "object") ELSE 0
        parent == t[node].parent
        found ==
            IF type = "call" THEN
                IF func # 0 /\ t[func].type = "identifier"
                THEN <<Reference(t[func].name, line, "call")>>
                ELSE IF func # 0 /\ t[func].type = "attribute"
                THEN (IF attr # 0 THEN <<Reference(t[attr].name, line, "call")>>
                      ELSE <<>>)
                     \o
                     (IF obj # 0 /\ t[obj].type = "identifier"
                      THEN <<Reference(t[obj].name, line, "access")>> ELSE <<>>)
                ELSE <<>>
            ELSE IF type = "identifier" THEN
                IF /\ parent # 0
                   /\ t[parent].type \notin
                         {"function_definition", "class_definition",
                          "import_from_statement", "import_statement",
                          "assignment", "parameter"}
                   /\ t[node].name \notin PY_SKIPPED_NAMES
                THEN <<Reference(t[node].name, line, "access")>>
                ELSE <<>>
            ELSE <<>>
    IN  found \o Py_extract_references(t, node + 1)

\* PythonAnalyzer._extract_imports, from node on (in index order, as above):
\* imports is the dictionary so far, a later import of a name replaces the
\* earlier one.
RECURSIVE Py_extract_imports(_, _, _)
Py_extract_imports_ByAlias(t, node, imports) ==
    IF node > Len(t) THEN imports
    ELSE
    LET module_node == ChildByField(t, node, "module_name")
        module == IF module_node # 0 THEN t[module_node].name ELSE <<>>
        plain == {c \in Children(t, node) :
                     t[c].type = "dotted_name" /\ c # module_node}
        aliased == {c \in Children(t, node) :
                       /\ t[c].type = "aliased_import"
                       /\ ChildByField(t, c, "name") # 0}
        names == {t[c].name : c \in plain}
                 \cup {t[ChildByField(t, c, "alias")].name : c \in aliased}
        found == IF t[node].type = "import_from_statement"
                 THEN [n \in names |-> module] @@ imports
                 ELSE imports
    IN  Py_extract_imports(t, node + 1, found)

Py_extract_imports(t, node, imports) ==
    IF node > Len(t) THEN imports
    ELSE
    LET module_node == ChildByField(t, node, "module_name")
        module == IF module_node # 0 THEN t[module_node].name ELSE <<>>
        plain == {c \in Children(t, node) :
                     t[c].type = "dotted_name" /\ c # module_node}
        aliased == {c \in Children(t, node) :
                       /\ t[c].type = "aliased_import"
                       /\ ChildByField(t, c, "name") # 0}
        names == {t[c].name : c \in plain}
                 \cup {t[ChildByField(t, c, "name")].name : c \in aliased}
        found == IF t[node].type = "import_from_statement"
                 THEN [n \in names |-> module] @@ imports
                 ELSE imports
    IN  Py_extract_imports(t, node + 1, found)

\* PythonAnalyzer.analyze on the tree of the file at file_path
PythonAnalyzer_extract(file_path, t) ==
    LET found_so_far == [file_path |-> file_path, definitions |-> <<>>,
                     references |-> <<>>, imports |-> <<>>, exports |-> {}]
        defined == Py_extract_definitions(t, 1, found_so_far, NONE)
    IN  [defined EXCEPT !.references = Py_extract_references(t, 1),
                        !.imports = Py_extract_imports(t, 1, <<>>)]

\* TypeScriptAnalyzer._is_exported
Ts_is_exported(t, node) ==
    LET parent == t[node].parent
    IN  \/ parent # 0 /\ t[parent].type = "export_statement"
        \/ parent # 0 /\ \E sibling \in Children(t, parent) : t[sibling].type = "export"

RECURSIVE Ts_extract_definitions(_, _, _, _)
RECURSIVE Ts_extract_definitions_kids(_, _, _, _, _)
\* TypeScriptAnalyzer._extract_definitions
Ts_extract_definitions(t, node, found_so_far, parent_class) ==
    LET type == t[node].type
        name_node == ChildByField(t, node, "name")
        name == IF name_node # 0 THEN t[name_node].name ELSE NONE
        line == StartLine(t, node)
        add(a, kind, is_private, parent) ==
            [a EXCEPT !.definitions = Append(@,
                Definition(name, kind, line, Ts_is_exported(t, node), is_private, parent))]
        recurse(a) ==
            Ts_extract_definitions_kids(t, Children(t, node), a, parent_class, FALSE)
    IN  IF type = "export_statement" THEN
            Ts_extract_definitions_kids(t,
                {c \in Children(t, node) :
                    t[c].type \in {"function_declaration", "class_declaration",
                                   "lexical_declaration", "type_alias_declaration",
                                   "interface_declaration"}},
                found_so_far, parent_class, TRUE)
        ELSE IF type = "function_declaration" THEN
            recurse(IF name_node # 0 THEN add(found_so_far, "function", FALSE, NONE)
                    ELSE found_so_far)
        ELSE IF type = "class_declaration" THEN
            IF name_node # 0
            THEN LET body == ChildByField(t, node, "body")
                     added == add(found_so_far, "class", FALSE, NONE)
                 IN  IF body # 0
                     THEN Ts_extract_definitions_kids(t, Children(t, body), added,
                                                      name, FALSE)
                     ELSE added
            ELSE found_so_far    \* the loop at the end skips the children of a class
        ELSE IF type = "method_definition" THEN
            LET modifiers == {c \in Children(t, node) :
                                 t[c].type = "accessibility_modifier"}
                is_private ==
                    /\ modifiers # {}
                    /\ t[Min(modifiers)].name = <<"p", "r", "i", "v", "a", "t", "e">>
            IN  recurse(IF name_node # 0
                        THEN [found_so_far EXCEPT !.definitions = Append(@,
                                 Definition(name, "method", line, FALSE, is_private,
                                            parent_class))]
                        ELSE found_so_far)
        ELSE IF type = "lexical_declaration" THEN
            LET declarators == {c \in Children(t, node) :
                                   t[c].type = "variable_declarator"}
                \* the declarators in order
                child == [i \in 1..Cardinality(declarators) |->
                            CHOOSE c \in declarators :
                               Cardinality({d \in declarators : d < c}) = i - 1]
                named(c) == /\ ChildByField(t, c, "name") # 0
                            /\ t[ChildByField(t, c, "name")].type = "identifier"
                kind(c) == LET value == ChildByField(t, c, "value")
                           IN  IF value # 0 /\ t[value].type = "arrow_function"
                               THEN "function" ELSE "constant"
                declared == SelectSeq(child, named)
            IN  recurse([found_so_far EXCEPT !.definitions = @ \o
                    [i \in 1..Len(declared) |->
                        Definition(t[ChildByField(t, declared[i], "name")].name,
                                   kind(declared[i]), line,
                                   Ts_is_exported(t, node), FALSE, NONE)]])
        ELSE IF type = "type_alias_declaration" THEN
            recurse(IF name_node # 0 THEN add(found_so_far, "type", FALSE, NONE)
                    ELSE found_so_far)
        ELSE IF type = "interface_declaration" THEN
            recurse(IF name_node # 0 THEN add(found_so_far, "interface", FALSE, NONE)
                    ELSE found_so_far)
        ELSE recurse(found_so_far)

\* The loops over children: of an export statement (exported, where the last
\* definition of the list is marked after each declaration), of a class body
\* and of any other node.
Ts_extract_definitions_kids(t, S, found_so_far, parent_class, exported) ==
    IF S = {} THEN found_so_far
    ELSE LET child == Min(S)
             after == Ts_extract_definitions(t, child, found_so_far, parent_class)
             last == Len(after.definitions)
             marked == IF exported /\ last > 0
                       THEN [after EXCEPT
                                !.definitions[last].is_exported = TRUE,
                                !.exports = @ \cup {after.definitions[last].name}]
                       ELSE after
         IN  Ts_extract_definitions_kids(t, S \ {child}, marked, parent_class,
                                         exported)

\* TypeScriptAnalyzer._extract_references, from node on (in index order)
RECURSIVE Ts_extract_references(_, _)
Ts_extract_references(t, node) ==
    IF node > Len(t) THEN <<>>
    ELSE
    LET type == t[node].type
        line == StartLine(t, node)
        func == ChildByField(t, node, "function")
        prop == IF func # 0 THEN ChildByField(t, func, "property") ELSE 0
        constructor == ChildByField(t, node, "constructor")
        parent == t[node].parent
        found ==
            IF type = "call_expression" THEN
                IF func # 0 /\ t[func].type = "identifier"
                THEN <<Reference(t[func].name, line, "call")>>
                ELSE IF func # 0 /\ t[func].type = "member_expression" /\ prop # 0
                THEN <<Reference(t[prop].name, line, "call")>>
                ELSE <<>>
            ELSE IF type = "new_expression" THEN
                IF constructor # 0 /\ t[constructor].type = "identifier"
                THEN <<Reference(t[constructor].name, line, "instantiation")>>
                ELSE <<>>
            ELSE IF type = "type_identifier" THEN
                <<Reference(t[node].name, line, "type_annotation")>>
            ELSE IF type = "identifier" THEN
                IF /\ parent # 0
                   /\ t[parent].type \notin
                         {"function_declaration", "class_declaration",
                          "variable_declarator", "import_specifier",
                          "type_alias_declaration", "interface_declaration",
                          "method_definition", "formal_parameters"}
                   /\ t[node].name \notin TS_SKIPPED_NAMES
                THEN <<Reference(t[node].name, line, "access")>>
                ELSE <<>>
            ELSE <<>>
    IN  found \o Ts_extract_references(t, node + 1)

\* TypeScriptAnalyzer._extract_imports, from node on (in index order), with
\* _extract_import_names over the subtree of each import clause: the name of
\* every import specifier and the text of every identifier below the clause
\* become keys.  The module is the text of the string without its quotes.
RECURSIVE Ts_extract_imports(_, _, _)
Ts_extract_imports(t, node, imports) ==
    IF node > Len(t) THEN imports
    ELSE
    LET strings == {c \in Children(t, node) : t[c].type = "string"}
        clauses == {c \in Children(t, node) : t[c].type = "import_clause"}
        quotes == {"\"", "'"}
        strip(text) ==
            LET kept == {i \in DOMAIN text : text[i] \notin quotes}
            IN  IF kept = {} THEN <<>> ELSE SubSeq(text, Min(kept), Max(kept))
        below == UNION {c..LastDescendant(t, c) : c \in clauses}
        names == {t[ChildByField(t, n, "name")].name :
                     n \in {b \in below : /\ t[b].type = "import_specifier"
                                          /\ ChildByField(t, b, "name") # 0}}
                 \cup {t[n].name : n \in {b \in below : t[b].type = "identifier"}}
        found == IF t[node].type = "import_statement" /\ strings # {}
                 THEN [n \in names |-> strip(t[Max(strings)].name)] @@ imports
                 ELSE imports
    IN  Ts_extract_imports(t, node + 1, found)

\* TypeScriptAnalyzer.analyze on the tree of the file at file_path
TypeScriptAnalyzer_extract(file_path, t) ==
    LET found_so_far == [file_path |-> file_path, definitions |-> <<>>,
                     references |-> <<>>, imports |-> <<>>, exports |-> {}]
        defined == Ts_extract_definitions(t, 1, found_so_far, NONE)
    IN  [defined EXCEPT !.references = Ts_extract_references(t, 1),
                        !.imports = Ts_extract_imports(t, 1, <<>>)]

\* ---------------------------------------------------------------------------
\* DeadCodeDetector.analyze_single_file
\* ---------------------------------------------------------------------------
referenced_names_WithImports(a) ==
    {a.references[i].name : i \in DOMAIN a.references} \cup DOMAIN a.imports

referenced_names(a) == {a.references[i].name : i \in DOMAIN a.references}

NoSingle ==
    [status |-> "not_run", file |-> NONE, definitions |-> <<>>,
     references |-> <<>>, imports |-> <<>>, dead_candidates |-> <<>>]

RECURSIVE dead_candidates(_, _)
\* the loop over analysis.definitions, appending what is not referenced
dead_candidates(definitions, names) ==
    IF definitions = <<>> THEN <<>>
    ELSE (IF Head(definitions).name \notin names
             THEN <<Head(definitions)>> ELSE <<>>)
         \o dead_candidates(Tail(definitions), names)

analyze_single_file(file) ==
    IF ~Supported(file.path)
    THEN [NoSingle EXCEPT !.status = "error", !.file = file.path]
    ELSE IF Raises(file)
    THEN [NoSingle EXCEPT !.status = "raised", !.file = file.path]
    ELSE LET a == AnalyzeFile(file)
         IN  [status |-> "returned",
              file |-> file.path,
              definitions |-> a.definitions,
              references |-> a.references,
              imports |-> a.imports,
              dead_candidates |-> dead_candidates(a.definitions, referenced_names(a))]

\* ---------------------------------------------------------------------------
\* DeadCodeDetector.analyze_project
\* ---------------------------------------------------------------------------
\* analyses: the supported files of the list, analyzed in list order.
RECURSIVE Analyses(_)
Analyses(fs) ==
    IF fs = <<>> THEN <<>>
    ELSE (IF Supported(Head(fs).path) THEN <<AnalyzeFile(Head(fs))>> ELSE <<>>)
         \o Analyses(Tail(fs))

\* The first loop raises as soon as it reaches a supported file whose
\* analysis raises.
ProjectRaises(fs) ==
    \E i \in DOMAIN fs : Supported(fs[i].path) /\ Raises(fs[i])

\* all_imports: symbol -> files importing it; only its key set is ever read.
all_imports_ByModule(analyses) ==
    UNION {{analyses[i].imports[n] : n \in DOMAIN analyses[i].imports}
              : i \in DOMAIN analyses}

all_imports(analyses) == UNION {DOMAIN analyses[i].imports : i \in DOMAIN analyses}

\* all_definitions: symbol -> (file, definition); a later definition of the
\* same name replaces the earlier entry.
RECURSIVE IndexDefinitions(_, _, _)
IndexDefinitions_KeepFirst(index, file_path, definitions) ==
    IF definitions = <<>> THEN index
    ELSE LET d == Head(definitions)
         IN  IndexDefinitions(IF d.name \in DOMAIN index THEN index
                              ELSE (d.name :> <<file_path, d>>) @@ index,
                              file_path, Tail(definitions))

IndexDefinitions(index, file_path, definitions) ==
    IF definitions = <<>> THEN index
    ELSE LET d == Head(definitions)
             rest == [n \in DOMAIN index \ {d.name} |-> index[n]]
         IN  IndexDefinitions((d.name :> <<file_path, d>>) @@ rest,
                              file_path, Tail(definitions))

RECURSIVE all_definitions(_, _)
all_definitions(index, analyses) ==
    IF analyses = <<>> THEN index
    ELSE all_definitions(
            IndexDefinitions(index, Head(analyses).file_path,
                             Head(analyses).definitions),
            Tail(analyses))

\* The bucket of one definition: the if/elif/else ladder of the second loop.
Bucket_PrivateFirst(defn, file_refs, imported) ==
    IF defn.name \in file_refs THEN "none"
    ELSE IF defn.is_private \/ StartsWithUnderscore(defn.name)
    THEN "private_unused"
    ELSE IF (defn.is_exported \/ defn.kind \in {"function", "class", "constant"})
            /\ defn.name \notin imported
    THEN "exported_but_unused"
    ELSE "single_dead"

Bucket_FlagOnly(defn, file_refs, imported) ==
    IF defn.name \in file_refs THEN "none"
    ELSE IF defn.name \in imported THEN "none"
    ELSE IF defn.is_private THEN "private_unused"
    ELSE IF defn.is_exported \/ defn.kind \in {"function", "class", "constant"}
    THEN "exported_but_unused"
    ELSE "single_dead"

Bucket_NoFileRefs(defn, file_refs, imported) ==
    IF defn.name \in imported THEN "none"
    ELSE IF defn.is_private \/ StartsWithUnderscore(defn.name)
    THEN "private_unused"
    ELSE IF defn.is_exported \/ defn.kind \in {"function", "class", "constant"}
    THEN "exported_but_unused"
    ELSE "single_dead"

Bucket(defn, file_refs, imported) ==
    IF defn.name \in file_refs THEN "none"
    ELSE IF defn.name \in imported THEN "none"
    ELSE IF defn.is_private \/ StartsWithUnderscore(defn.name)
    THEN "private_unused"
    ELSE IF defn.is_exported \/ defn.kind \in {"function", "class", "constant"}
    THEN "exported_but_unused"
    ELSE "single_dead"

PrivateEntry(file_path, defn) ==
    [file |-> file_path, name |-> defn.name, kind |-> defn.kind, line |-> defn.line]

ExportedEntry(file_path, defn) ==
    [file |-> file_path, name |-> defn.name, kind |-> defn.kind,
     line |-> defn.line, is_exported |-> defn.is_exported]

SingleEntry(defn) == [name |-> defn.name, kind |-> defn.kind, line |-> defn.line]

EmptyResults ==
    [files_analyzed |-> 0,
     single_file_dead_code |-> <<>>,
     cross_file_dead_code |-> <<>>,
     exported_but_unused |-> <<>>,
     private_unused |-> <<>>]

\* The inner loop over the definitions of one file: results and single_dead
\* are threaded through.
RECURSIVE ClassifyDefinitions(_, _, _, _, _)
ClassifyDefinitions_NoElif(acc, file_path, definitions, file_refs, imported) ==
    IF definitions = <<>> THEN acc
    ELSE LET defn == Head(definitions)
             b == Bucket(defn, file_refs, imported)
             public == defn.is_exported \/ defn.kind \in {"function", "class", "constant"}
             next ==
                 IF b = "private_unused"
                 THEN [acc EXCEPT !.results.private_unused =
                                      Append(@, PrivateEntry(file_path, defn)),
                                  !.results.exported_but_unused =
                                      IF public
                                      THEN Append(@, ExportedEntry(file_path, defn))
                                      ELSE @]
                 ELSE IF b = "exported_but_unused"
                 THEN [acc EXCEPT !.results.exported_but_unused =
                                      Append(@, ExportedEntry(file_path, defn))]
                 ELSE IF b = "single_dead"
                 THEN [acc EXCEPT !.single_dead = Append(@, SingleEntry(defn))]
                 ELSE acc
         IN  ClassifyDefinitions(next, file_path, Tail(definitions), file_refs, imported)

ClassifyDefinitions(acc, file_path, definitions, file_refs, imported) ==
    IF definitions = <<>> THEN acc
    ELSE LET defn == Head(definitions)
             b == Bucket(defn, file_refs, imported)
             next ==
                 IF b = "private_unused"
                 THEN [acc EXCEPT !.results.private_unused =
                                      Append(@, PrivateEntry(file_path, defn))]
                 ELSE IF b = "exported_but_unused"
                 THEN [acc EXCEPT !.results.exported_but_unused =
                                      Append(@, ExportedEntry(file_path, defn))]
                 ELSE IF b = "single_dead"
                 THEN [acc EXCEPT !.single_dead = Append(@, SingleEntry(defn))]
                 ELSE acc
         IN  ClassifyDefinitions(next, file_path, Tail(definitions), file_refs, imported)

\* The outer loop over the analyses.
RECURSIVE ClassifyFiles(_, _, _)
ClassifyFiles(results, analyses, imported) ==
    IF analyses = <<>> THEN results
    ELSE LET a == Head(analyses)
             done == ClassifyDefinitions([results |-> results, single_dead |-> <<>>],
                                         a.file_path, a.definitions,
                                         referenced_names(a), imported)
             out == IF done.single_dead # <<>>
                    THEN [done.results EXCEPT !.single_file_dead_code =
                             (a.file_path :> done.single_dead)
                             @@ [q \in DOMAIN @ \ {a.file_path} |-> @[q]]]
                    ELSE done.results
         IN  ClassifyFiles(out, Tail(analyses), imported)

NoProject == [status |-> "not_run", results |-> EmptyResults]

\* A resolver that classifies each file as soon as it is analyzed, against the
\* imports of the files seen so far.
RECURSIVE ClassifyFilesAsSeen(_, _, _)
ClassifyFilesAsSeen(results, analyses, seen) ==
    IF analyses = <<>> THEN results
    ELSE LET now == Append(seen, Head(analyses))
         IN  ClassifyFilesAsSeen(
                ClassifyFiles(results, <<Head(analyses)>>, all_imports(now)),
                Tail(analyses), now)

analyze_project_AsSeen(fs) ==
    IF ProjectRaises(fs)
    THEN [status |-> "raised", results |-> EmptyResults]
    ELSE [status |-> "returned",
          results |-> ClassifyFilesAsSeen(
                         [EmptyResults EXCEPT !.files_analyzed = Len(fs)],
                         Analyses(fs), <<>>)]

\* analyze_project: the first loop analyzes every file and fills the two
\* indexes; only then the second loop classifies.
analyze_project(fs) ==
    IF ProjectRaises(fs)
    THEN [status |-> "raised", results |-> EmptyResults]
    ELSE LET analyses == Analyses(fs)
         IN  [status |-> "returned",
              results |-> ClassifyFiles(
                             [EmptyResults EXCEPT !.files_analyzed = Len(fs)],
                             analyses, all_imports(analyses))]

DeadIdle ==
    /\ files = <<>>
    /\ project = NoProject
    /\ single = NoSingle
    /\ singleAgain = NoSingle

\* ---------------------------------------------------------------------------
\* SpecCx: the parser hands over a tree, node by node in preorder; the analyzer
\* then runs once over the finished tree.
\* ---------------------------------------------------------------------------
FN == <<"f">>

\* No FunctionMetrics object is being examined on its own.
FmIdle ==
    /\ metrics = FunctionMetrics(FN, 1, 1, 0)
    /\ detections = 0
    /\ rating = NotRated

\* The node kinds the parser emits in SpecCx, per language: the function kind,
\* the control-flow kinds of the language and kinds that are in no table.
PyPalette ==
    {Node("function_definition", 0, FN, NONE, NoField),
     Plain("if_statement", 0), Plain("elif_clause", 0), Plain("else_clause", 0),
     Plain("for_statement", 0), Plain("expression_statement", 0)}

TsPalette ==
    {Node("function_declaration", 0, FN, NONE, NoField),
     Plain("if_statement", 0), Plain("else_clause", 0),
     Plain("for_statement", 0),
     Node("binary_expression", 0, NONE, OpAnd, NoField),
     Node("binary_expression", 0, NONE, OpPlus, NoField)}

Palette(l) == IF l = "python" THEN PyPalette ELSE TsPalette

\* The wider palettes of SpecWide: also a function node without a name field,
\* an ERROR node (which flags the tree as containing a syntax error), a
\* ternary, a with block and a boolean operator (Python), a switch statement
\* (TypeScript).
PyWidePalette ==
    PyPalette \cup
    {Plain("function_definition", 0), Plain("with_statement", 0),
     Plain("boolean_operator", 0), Plain("conditional_expression", 0),
     Plain("ERROR", 0)}

TsWidePalette ==
    TsPalette \cup
    {Plain("function_declaration", 0), Plain("switch_statement", 0),
     Plain("ternary_expression", 0), Plain("ERROR", 0)}

WidePalette(l) == IF l = "python" THEN PyWidePalette ELSE TsWidePalette

RootKind(l) == IF l = "python" THEN "module" ELSE "program"

ExpressionKinds ==
    {"binary_expression", "boolean_operator", "conditional_expression",
     "ternary_expression"}

\* What the grammars allow for a node of the given kind under parent p of t:
\* an elif clause belongs to an if statement, an else clause to an if statement
\* or (Python) to a loop; an else clause is the last child of its statement; an
\* expression statement holds no statement, clause or definition, an
\* expression holds only expressions, and an ERROR node holds the tokens the
\* parser skipped, which are of no kind the analyzers look at.
Grammatical(l, t, p, type) ==
    /\ type = "elif_clause" => t[p].type = "if_statement"
    /\ type = "else_clause" =>
          \/ t[p].type = "if_statement"
          \/ l = "python" /\ t[p].type = "for_statement"
    /\ \A c \in Children(t, p) : t[c].type # "else_clause"
    /\ t[p].type \notin {"expression_statement", "ERROR"}
    /\ t[p].type \in ExpressionKinds => type \in ExpressionKinds

\* The nodes from the last node up to the root: where a preorder emission can
\* attach the next node.
RECURSIVE RightmostPath(_, _)
RightmostPath(t, n) ==
    IF n = 0 THEN {} ELSE {n} \cup RightmostPath(t, t[n].parent)

\* No dead-code analyzer has been run on a syntax tree.
ExIdle == extraction = [done |-> FALSE]

ChainIdle ==
    /\ nested = <<>>
    /\ sequential = <<>>
    /\ pairResult = NotRun

CxInit ==
    /\ lang \in {"python", "typescript"}
    /\ tree = <<Plain(RootKind(lang), 0)>>
    /\ analysis = NotRun
    /\ again = NotRun
    /\ ChainIdle
    /\ DeadIdle
    /\ FmIdle
    /\ ExIdle

\* The parser emits the next node, of a kind of the palette, of a tree of at
\* most limit nodes.
Emit(limit, palette) ==
    /\ ~analysis.done
    /\ Len(tree) < limit
    /\ \E p \in RightmostPath(tree, Len(tree)), k \in palette :
          /\ Grammatical(lang, tree, p, k.type)
          /\ tree' = Append(tree, [k EXCEPT !.parent = p])
    /\ UNCHANGED <<lang, analysis, again>>
    /\ UNCHANGED chainVars
    /\ UNCHANGED deadVars
    /\ UNCHANGED fmVars
    /\ UNCHANGED extraction

ParseNode == Emit(MaxNodes, Palette(lang))

ParseLoopNode == Emit(MaxLoopNodes, Palette(lang))

ParseWideNode == Emit(MaxWideNodes, WidePalette(lang))

\* PythonComplexityAnalyzer.analyze / TypeScriptComplexityAnalyzer.analyze
RunAnalyze ==
    /\ ~analysis.done
    /\ analysis' = Ran(Analyze(lang, tree))
    /\ UNCHANGED <<lang, tree, again>>
    /\ UNCHANGED chainVars
    /\ UNCHANGED deadVars
    /\ UNCHANGED fmVars
    /\ UNCHANGED extraction

\* analyze() is called a second time on the same analyzer object.
RunAgain ==
    /\ analysis.done
    /\ ~again.done
    /\ again' = Ran(Analyze(lang, tree))
    /\ UNCHANGED <<lang, tree, analysis>>
    /\ UNCHANGED chainVars
    /\ UNCHANGED deadVars
    /\ UNCHANGED fmVars
    /\ UNCHANGED extraction

CxNext == ParseNode \/ RunAnalyze

SpecCx == CxInit /\ [][CxNext]_vars

\* SpecLoop: the same for Python files alone, with larger trees.
LoopInit == CxInit /\ lang = "python"

LoopNext == ParseLoopNode \/ RunAnalyze

SpecLoop == LoopInit /\ [][LoopNext]_vars

\* SpecWide: smaller trees over the wider palettes.
WideNext == ParseWideNode \/ RunAnalyze

SpecWide == CxInit /\ [][WideNext]_vars

\* ---------------------------------------------------------------------------
\* SpecChain: two functions of the same language are written side by side, one
\* with its conditionals nested in each other, one with the same number of
\* conditionals in sequence; linear statements may be put into any block.  Both
\* are analyzed once.
\* ---------------------------------------------------------------------------
BlockKind(l) == IF l = "python" THEN "block" ELSE "statement_block"
FunctionKind(l) == IF l = "python" THEN "function_definition" ELSE "function_declaration"

EmptyFunction(l) ==
    <<Plain(RootKind(l), 0),
      Node(FunctionKind(l), 1, FN, NONE, NoField),
      Node(BlockKind(l), 2, NONE, NONE, "body")>>

Count(t, type) == Cardinality({n \in 1..Len(t) : t[n].type = type})
Blocks(t) == {n \in 1..Len(t) : t[n].type \in {"block", "statement_block"}}

\* The block that holds no conditional: the innermost one of the nested function.
InnermostBlock(t) ==
    CHOOSE b \in Blocks(t) : \A c \in Children(t, b) : t[c].type # "if_statement"

\* t with a conditional (and its consequence block) appended to block b.
WithConditional(l, t, b) ==
    t \o <<Plain("if_statement", b),
           Node(BlockKind(l), Len(t) + 1, NONE, NONE, "consequence")>>

CxIdle ==
    /\ tree = <<>>
    /\ analysis = NotRun
    /\ again = NotRun

ChainSetup ==
    /\ lang \in {"python", "typescript"}
    /\ nested = EmptyFunction(lang)
    /\ sequential = EmptyFunction(lang)
    /\ pairResult = NotRun
    /\ CxIdle
    /\ DeadIdle
    /\ FmIdle
    /\ ExIdle

\* One more conditional is written into both functions.
AddConditional ==
    /\ ~pairResult.done
    /\ Count(nested, "if_statement") < MaxChain
    /\ nested' = WithConditional(lang, nested, InnermostBlock(nested))
    /\ sequential' = WithConditional(lang, sequential, 3)
    /\ UNCHANGED <<pairResult>>
    /\ UNCHANGED cxVars
    /\ UNCHANGED deadVars
    /\ UNCHANGED fmVars
    /\ UNCHANGED extraction

\* A linear statement is written into a block of the nested function.
AddLinearNested ==
    /\ ~pairResult.done
    /\ Count(nested, "expression_statement") < MaxLinear
    /\ \E b \in Blocks(nested) :
          nested' = Append(nested, Plain("expression_statement", b))
    /\ UNCHANGED <<sequential, pairResult>>
    /\ UNCHANGED cxVars
    /\ UNCHANGED deadVars
    /\ UNCHANGED fmVars
    /\ UNCHANGED extraction

\* A linear statement is written into a block of the sequential function.
AddLinearSequential ==
    /\ ~pairResult.done
    /\ Count(sequential, "expression_statement") < MaxLinear
    /\ \E b \in Blocks(sequential) :
          sequential' = Append(sequential, Plain("expression_statement", b))
    /\ UNCHANGED <<nested, pairResult>>
    /\ UNCHANGED cxVars
    /\ UNCHANGED deadVars
    /\ UNCHANGED fmVars
    /\ UNCHANGED extraction

\* Both functions are analyzed (analyze() on each file).
AnalyzePair ==
    /\ ~pairResult.done
    /\ pairResult' = Ran(<<Analyze(lang, nested)[1], Analyze(lang, sequential)[1]>>)
    /\ UNCHANGED <<nested, sequential>>
    /\ UNCHANGED cxVars
    /\ UNCHANGED deadVars
    /\ UNCHANGED fmVars
    /\ UNCHANGED extraction

ChainNext == AddConditional \/ AddLinearNested \/ AddLinearSequential \/ AnalyzePair

SpecChain == ChainSetup /\ [][ChainNext]_vars

\* ---------------------------------------------------------------------------
\* SpecDead and SpecSingle: a project is put together file by file; the
\* content of a readable source file grows by one definition, reference or
\* import at a time; then the detector runs once, over the project (SpecDead)
\* or over one of its files (SpecSingle).
\* ---------------------------------------------------------------------------
Names == {<<"f">>, <<"_", "f">>}
ClassName == <<"C">>
Module == <<"m">>

\* What _extract_definitions of the Python analyzer can record for a name:
\* is_private only from the leading underscore of a function or method, never
\* is_exported.  (A Python constant needs an upper-case name; Names has none,
\* constants come from TypeScript files.)
PyDefinitions(line) ==
    {Definition(n, k, line, FALSE,
                k \in {"function", "method"} /\ StartsWithUnderscore(n),
                IF k = "method" THEN ClassName ELSE NONE)
        : n \in Names, k \in {"function", "method", "class"}}

\* What _extract_definitions of the TypeScript analyzer can record: is_exported
\* from the export statement (which marks the last definition recorded, a
\* method included), is_private only from the modifier of a method.
TsDefinitions(line) ==
    {Definition(n, k, line, e, FALSE, NONE)
        : n \in Names, k \in {"function", "class", "constant", "type", "interface"},
          e \in BOOLEAN}
    \cup
    {Definition(n, "method", line, e, p, ClassName)
        : n \in Names, e \in BOOLEAN, p \in BOOLEAN}

DefinitionsOf(ext, line) ==
    IF ext = "py" THEN PyDefinitions(line) ELSE TsDefinitions(line)

RECURSIVE Total(_, _)
\* the number of definitions / references / imports of all files together
Total(fs, what) ==
    IF fs = <<>> THEN 0
    ELSE (IF what = "definitions" THEN Len(Head(fs).definitions)
          ELSE IF what = "references" THEN Len(Head(fs).references)
          ELSE Cardinality(DOMAIN Head(fs).imports))
         + Total(Tail(fs), what)

NotAnalyzed == project.status = "not_run" /\ single.status = "not_run"

HasContent(i) == Supported(files[i].path) /\ files[i].readable

DeadInit ==
    /\ lang = "none"
    /\ DeadIdle
    /\ CxIdle
    /\ ChainIdle
    /\ FmIdle
    /\ ExIdle

\* A file is added to the list; an unsupported file is never opened.
AddFile ==
    /\ NotAnalyzed
    /\ Len(files) < MaxFiles
    /\ \E ext \in {"py", "ts", "txt"}, readable \in BOOLEAN :
          /\ ext = "txt" => readable
          /\ files' = Append(files,
                [path |-> [stem |-> Len(files) + 1, ext |-> ext],
                 readable |-> readable,
                 definitions |-> <<>>, references |-> <<>>, imports |-> <<>>])
    /\ UNCHANGED <<project, single, singleAgain>>
    /\ UNCHANGED cxVars
    /\ UNCHANGED chainVars
    /\ UNCHANGED fmVars
    /\ UNCHANGED extraction

\* A definition is written at the end of a file.
AddDefinition ==
    /\ NotAnalyzed
    /\ Total(files, "definitions") < MaxDefs
    /\ \E i \in DOMAIN files :
          /\ HasContent(i)
          /\ \E d \in DefinitionsOf(files[i].path.ext, Len(files[i].definitions) + 1) :
                files' = [files EXCEPT ![i].definitions = Append(@, d)]
    /\ UNCHANGED <<project, single, singleAgain>>
    /\ UNCHANGED cxVars
    /\ UNCHANGED chainVars
    /\ UNCHANGED fmVars
    /\ UNCHANGED extraction

\* A call of a name is written at the end of a file.
AddReference ==
    /\ NotAnalyzed
    /\ Total(files, "references") < MaxRefs
    /\ \E i \in DOMAIN files, n \in Names :
          /\ HasContent(i)
          /\ files' = [files EXCEPT ![i].references =
                          Append(@, Reference(n, Len(@) + 1, "call"))]
    /\ UNCHANGED <<project, single, singleAgain>>
    /\ UNCHANGED cxVars
    /\ UNCHANGED chainVars
    /\ UNCHANGED fmVars
    /\ UNCHANGED extraction

\* An import of a name is written into a file.
AddImport ==
    /\ NotAnalyzed
    /\ Total(files, "imports") < MaxImports
    /\ \E i \in DOMAIN files, n \in Names :
          /\ HasContent(i)
          /\ n \notin DOMAIN files[i].imports
          /\ files' = [files EXCEPT ![i].imports = (n :> Module) @@ @]
    /\ UNCHANGED <<project, single, singleAgain>>
    /\ UNCHANGED cxVars
    /\ UNCHANGED chainVars
    /\ UNCHANGED fmVars
    /\ UNCHANGED extraction

\* detector.analyze_project(all_files)
AnalyzeProject ==
    /\ NotAnalyzed
    /\ project' = analyze_project(files)
    /\ UNCHANGED <<files, single, singleAgain>>
    /\ UNCHANGED cxVars
    /\ UNCHANGED chainVars
    /\ UNCHANGED fmVars
    /\ UNCHANGED extraction

\* detector.analyze_single_file(file)
AnalyzeSingleFile ==
    /\ NotAnalyzed
    /\ \E i \in DOMAIN files : single' = analyze_single_file(files[i])
    /\ UNCHANGED <<files, project, singleAgain>>
    /\ UNCHANGED cxVars
    /\ UNCHANGED chainVars
    /\ UNCHANGED fmVars
    /\ UNCHANGED extraction

\* detector.analyze_single_file(file) is called again on the same file; the
\* detector's analyzer objects are the ones of the first call.
AnalyzeSingleAgain ==
    /\ single.status = "returned"
    /\ singleAgain.status = "not_run"
    /\ \E i \in DOMAIN files :
          /\ files[i].path = single.file
          /\ singleAgain' = analyze_single_file(files[i])
    /\ UNCHANGED <<files, project, single>>
    /\ UNCHANGED cxVars
    /\ UNCHANGED chainVars
    /\ UNCHANGED fmVars
    /\ UNCHANGED extraction

DeadNext == AddFile \/ AddDefinition \/ AddReference \/ AddImport \/ AnalyzeProject

SingleNext == AddFile \/ AddDefinition \/ AddReference \/ AddImport \/ AnalyzeSingleFile

SpecDead == DeadInit /\ [][DeadNext]_vars

SpecSingle == DeadInit /\ [][SingleNext]_vars

\* ---------------------------------------------------------------------------
\* SpecRerun: either harness above, with the analysis made twice: analyze() on
\* the same complexity analyzer, or analyze_single_file on the same file.
\* ---------------------------------------------------------------------------
RerunInit == CxInit \/ DeadInit

\* analyze() needs a complexity analyzer, a project file needs a detector.
RerunAnalyze == lang # "none" /\ RunAnalyze

RerunAddFile == lang = "none" /\ AddFile

RerunNext ==
    \/ ParseNode \/ RerunAnalyze \/ RunAgain
    \/ RerunAddFile \/ AddDefinition \/ AddReference \/ AddImport
    \/ AnalyzeSingleFile \/ AnalyzeSingleAgain

SpecRerun == RerunInit /\ [][RerunNext]_vars

\* ---------------------------------------------------------------------------
\* SpecExtract: the parser hands over the tree of one source file, statement
\* by statement; one of the two dead-code analyzers then runs over it.
\* ---------------------------------------------------------------------------
\* The statements the parser can put under node p of tree t in a Python file,
\* each as the nodes of its subtree in preorder: a function with one parameter,
\* a class, an assignment of a name, a call of a name, a call of a method on an
\* object and (at module level) a from-import with or without an alias.
PyStatements(t, p) ==
    LET b == Len(t)
        N(type, parent, name, field) == Node(type, parent, name, NONE, field)
        inBody == t[p].type \in {"module", "block"}
    IN  {<<N("function_definition", p, NONE, NoField),
           N("identifier", b + 1, n, "name"),
           N("parameters", b + 1, NONE, "parameters"),
           N("identifier", b + 3, <<"x">>, NoField),
           N("block", b + 1, NONE, "body")>> : n \in {s \in Names : inBody}}
        \cup
        {<<N("class_definition", p, NONE, NoField),
           N("identifier", b + 1, n, "name"),
           N("block", b + 1, NONE, "body")>>
            : n \in {s \in {<<"C">>, <<"_", "C">>} : inBody}}
        \cup
        {<<N("expression_statement", p, NONE, NoField),
           N("assignment", b + 1, NONE, NoField),
           N("identifier", b + 2, n, "left"),
           N("identifier", b + 2, <<"f">>, "right")>>
            : n \in {s \in {<<"X">>, <<"_", "X">>, <<"v">>} : inBody}}
        \cup
        {<<N("expression_statement", p, NONE, NoField),
           N("call", b + 1, NONE, NoField),
           N("identifier", b + 2, n, "function"),
           N("argument_list", b + 2, NONE, "arguments")>>
            : n \in {s \in Names : inBody}}
        \cup
        {<<N("expression_statement", p, NONE, NoField),
           N("call", b + 1, NONE, NoField),
           N("attribute", b + 2, NONE, "function"),
           N("identifier", b + 3, n, "object"),
           N("identifier", b + 3, <<"f">>, "attribute"),
           N("argument_list", b + 2, NONE, "arguments")>>
            : n \in {s \in {<<"o">>, <<"s", "e", "l", "f">>} : inBody}}
        \cup
        {<<N("import_from_statement", p, NONE, NoField),
           N("dotted_name", b + 1, Module, "module_name"),
           N("identifier", b + 2, Module, NoField),
           N("dotted_name", b + 1, <<"f">>, "name"),
           N("identifier", b + 4, <<"f">>, NoField)>>
            : x \in {s \in {1} : t[p].type = "module"}}
        \cup
        {<<N("import_from_statement", p, NONE, NoField),
           N("dotted_name", b + 1, Module, "module_name"),
           N("identifier", b + 2, Module, NoField),
           N("aliased_import", b + 1, NONE, "name"),
           N("dotted_name", b + 4, <<"f">>, "name"),
           N("identifier", b + 5, <<"f">>, NoField),
           N("identifier", b + 4, <<"g">>, "alias")>>
            : x \in {s \in {1} : t[p].type = "module"}}

\* The same for a TypeScript file: a function, a class, a const declaration
\* (of a name or of a destructuring pattern, with a name or an arrow function
\* as its value), each with or without an export statement around it at
\* program level; a call, a member call; a default export of an arrow
\* function; an import of a name with or without an alias; and, in a class
\* body, a method with or without an accessibility modifier.
TsStatements(t, p) ==
    LET N(type, parent, name, field) == Node(type, parent, name, NONE, field)
        inBody == t[p].type \in {"program", "statement_block"}
        atTop == t[p].type = "program"
        \* exported: an export_statement is put between p and the declaration
        wraps == {e \in BOOLEAN : inBody /\ (e => atTop)}
        b(e) == IF e THEN Len(t) + 1 ELSE Len(t)
        q(e) == IF e THEN Len(t) + 1 ELSE p
        wrap(e, nodes) ==
            IF e THEN <<N("export_statement", p, NONE, NoField)>> \o nodes ELSE nodes
        c == Len(t)
    IN  {wrap(e, <<N("function_declaration", q(e), NONE,
                     IF e THEN "declaration" ELSE NoField),
                   N("identifier", b(e) + 1, n, "name"),
                   N("formal_parameters", b(e) + 1, NONE, "parameters"),
                   N("required_parameter", b(e) + 3, NONE, NoField),
                   N("identifier", b(e) + 4, <<"x">>, "pattern"),
                   N("statement_block", b(e) + 1, NONE, "body")>>)
            : e \in wraps, n \in Names}
        \cup
        {wrap(e, <<N("class_declaration", q(e), NONE,
                     IF e THEN "declaration" ELSE NoField),
                   N("type_identifier", b(e) + 1, n, "name"),
                   N("class_body", b(e) + 1, NONE, "body")>>)
            : e \in wraps, n \in {<<"C">>, <<"_", "C">>}}
        \cup
        {wrap(e, <<N("lexical_declaration", q(e), NONE,
                     IF e THEN "declaration" ELSE NoField),
                   N("variable_declarator", b(e) + 1, NONE, NoField),
                   N(k, b(e) + 2, IF k = "identifier" THEN <<"X">> ELSE NONE, "name"),
                   N("identifier", b(e) + 2, <<"f">>, "value")>>)
            : e \in wraps, k \in {"identifier", "object_pattern"}}
        \cup
        {wrap(e, <<N("lexical_declaration", q(e), NONE,
                     IF e THEN "declaration" ELSE NoField),
                   N("variable_declarator", b(e) + 1, NONE, NoField),
                   N("identifier", b(e) + 2, <<"X">>, "name"),
                   N("arrow_function", b(e) + 2, NONE, "value"),
                   N("formal_parameters", b(e) + 4, NONE, "parameters"),
                   N("statement_block", b(e) + 4, NONE, "body")>>)
            : e \in wraps}
        \cup
        {<<N("expression_statement", p, NONE, NoField),
           N("call_expression", c + 1, NONE, NoField),
           N("identifier", c + 2, n, "function"),
           N("arguments", c + 2, NONE, "arguments")>>
            : n \in {s \in Names : inBody}}
        \cup
        {<<N("expression_statement", p, NONE, NoField),
           N("call_expression", c + 1, NONE, NoField),
           N("member_expression", c + 2, NONE, "function"),
           N("identifier", c + 3, n, "object"),
           N("property_identifier", c + 3, <<"f">>, "property"),
           N("arguments", c + 2, NONE, "arguments")>>
            : n \in {s \in {<<"o">>, <<"c", "o", "n", "s", "o", "l", "e">>} : inBody}}
        \cup
        {<<N("export_statement", p, NONE, NoField),
           N("arrow_function", c + 1, NONE, "value"),
           N("formal_parameters", c + 2, NONE, "parameters"),
           N("statement_block", c + 2, NONE, "body")>>
            : x \in {s \in {1} : atTop}}
        \cup
        {<<N("import_statement", p, NONE, NoField),
           N("import_clause", c + 1, NONE, NoField),
           N("named_imports", c + 2, NONE, NoField),
           N("import_specifier", c + 3, NONE, NoField),
           N("identifier", c + 4, <<"f">>, "name")>>
           \o (IF aliased THEN <<N("identifier", c + 4, <<"g">>, "alias")>> ELSE <<>>)
           \o <<N("string", c + 1, <<"'">> \o Module \o <<"'">>, "source")>>
            : aliased \in {a \in BOOLEAN : atTop}}
        \cup
        {<<N("method_definition", p, NONE, NoField)>>
           \o (IF m = NONE THEN <<>>
               ELSE <<N("accessibility_modifier", c + 1, m, NoField)>>)
           \o <<N("property_identifier", c + 1, n, "name"),
                N("formal_parameters", c + 1, NONE, "parameters"),
                N("statement_block", c + 1, NONE, "body")>>
            : n \in {s \in {<<"m">>, <<"_", "m">>} : t[p].type = "class_body"},
              m \in {NONE, <<"p", "r", "i", "v", "a", "t", "e">>,
                     <<"p", "u", "b", "l", "i", "c">>}}

ExtractInit ==
    /\ lang \in {"python", "typescript"}
    /\ tree = <<Plain(RootKind(lang), 0)>>
    /\ analysis = NotRun
    /\ again = NotRun
    /\ ChainIdle
    /\ DeadIdle
    /\ FmIdle
    /\ ExIdle

\* The parser hands over the next statement, under a node of the rightmost
\* path of the tree.
ParseStatement ==
    /\ ~extraction.done
    /\ \E p \in RightmostPath(tree, Len(tree)) :
          \E nodes \in (IF lang = "python" THEN PyStatements(tree, p)
                        ELSE TsStatements(tree, p)) :
             /\ Len(tree) + Len(nodes) <= MaxSourceNodes
             /\ tree' = tree \o nodes
    /\ UNCHANGED <<lang, analysis, again, extraction>>
    /\ UNCHANGED chainVars
    /\ UNCHANGED deadVars
    /\ UNCHANGED fmVars

\* analyzer.analyze(file_path) of the analyzer of the file's language
RunExtract ==
    /\ ~extraction.done
    /\ extraction' =
          [done |-> TRUE,
           analysis |->
              IF lang = "python"
              THEN PythonAnalyzer_extract([stem |-> 1, ext |-> "py"], tree)
              ELSE TypeScriptAnalyzer_extract([stem |-> 1, ext |-> "ts"], tree)]
    /\ UNCHANGED cxVars
    /\ UNCHANGED chainVars
    /\ UNCHANGED deadVars
    /\ UNCHANGED fmVars

ExtractNext == ParseStatement \/ RunExtract

SpecExtract == ExtractInit /\ [][ExtractNext]_vars

\* ---------------------------------------------------------------------------
\* SpecMetrics: a FunctionMetrics object as analyze() leaves it before
\* detect_smells(), with any complexities in range and the other metrics around
\* their thresholds; detect_smells() and complexity_rating() are called on it.
\* ---------------------------------------------------------------------------
Around(threshold) == (threshold - Margin)..(threshold + Margin)

MetricsInit ==
    /\ lang = "none"
    /\ CxIdle
    /\ ChainIdle
    /\ DeadIdle
    /\ ExIdle
    /\ \E c \in 1..MaxCyclomatic, g \in 0..MaxCognitive,
          d \in Around(MAX_NESTING_DEPTH), e \in Around(MAX_FUNCTION_LINES),
          p \in Around(MAX_PARAMETERS) :
          metrics = [FunctionMetrics(FN, 1, e, p) EXCEPT
                        !.cyclomatic_complexity = c,
                        !.cognitive_complexity = g,
                        !.max_nesting_depth = d]
    /\ detections = 0
    /\ rating = NotRated

\* metrics.detect_smells()
DetectSmells ==
    /\ detections < MaxDetections
    /\ metrics' = [metrics EXCEPT !.code_smells = detect_smells(metrics)]
    /\ detections' = detections + 1
    /\ UNCHANGED rating
    /\ UNCHANGED cxVars
    /\ UNCHANGED chainVars
    /\ UNCHANGED deadVars
    /\ UNCHANGED extraction

\* metrics.complexity_rating(), as the report calls it
RateFunction ==
    /\ rating = NotRated
    /\ rating' = complexity_rating(metrics.cyclomatic_complexity,
                                   metrics.cognitive_complexity)
    /\ UNCHANGED <<metrics, detections>>
    /\ UNCHANGED cxVars
    /\ UNCHANGED chainVars
    /\ UNCHANGED deadVars
    /\ UNCHANGED extraction

MetricsNext == DetectSmells \/ RateFunction

SpecMetrics == MetricsInit /\ [][MetricsNext]_vars

\* ---------------------------------------------------------------------------
\* Shapes of functions, used to state the properties below
\* ---------------------------------------------------------------------------
\* Every kind that any table or traversal of the language's analyzer looks at.
ControlKinds(l) ==
    IF l = "python"
    THEN PYTHON_DECISION_POINTS \cup PYTHON_NESTING_NODES \cup {"else_clause"}
    ELSE TS_DECISION_POINTS \cup TS_NESTING_NODES \cup {"else_clause"}

\* A node with an effect on some metric (a binary_expression has one only
\* with a logical operator).
IsControl(l, node) ==
    /\ node.type \in ControlKinds(l)
    /\ node.type = "binary_expression" => Ts_is_logical(node)

RECURSIVE IsInside(_, _, _)
\* n is a proper descendant of f
IsInside(t, f, n) ==
    IF n = 0 \/ t[n].parent = 0 THEN FALSE
    ELSE t[n].parent = f \/ IsInside(t, f, t[n].parent)

Inside(t, f) == {n \in 1..Len(t) : IsInside(t, f, n)}

ControlInside(l, t, f) == {n \in Inside(t, f) : IsControl(l, t[n])}

\* The number of nodes of the given kind that enclose n within f, n included.
RECURSIVE Enclosing(_, _, _, _)
Enclosing(t, f, n, kind) ==
    IF n = f \/ n = 0 THEN 0
    ELSE (IF t[n].type = kind THEN 1 ELSE 0) + Enclosing(t, f, t[n].parent, kind)

\* The body of f is linear: statements only, nothing any table mentions.
IsLinear(l, t, f) == Inside(t, f) # {} /\ ControlInside(l, t, f) = {}

\* The only control flow of f is conditionals, nested exactly k deep.
NestedConditionals(l, t, f, k) ==
    /\ \A n \in ControlInside(l, t, f) : t[n].type = "if_statement"
    /\ \E n \in Inside(t, f) : Enclosing(t, f, n, "if_statement") = k
    /\ \A n \in Inside(t, f) : Enclosing(t, f, n, "if_statement") <= k

\* f holds one loop, the loop one conditional, and the conditional has one
\* clause of each of the given kinds; f has no other control flow.
LoopWithChain(l, t, f, clauses) ==
    \E loop, cond \in Inside(t, f) :
       /\ t[loop].type = "for_statement"
       /\ t[cond].type = "if_statement"
       /\ IsInside(t, loop, cond)
       /\ \A c \in clauses :
             Cardinality({n \in Children(t, cond) : t[n].type = c}) = 1
       /\ \A n \in ControlInside(l, t, f) :
             \/ n \in {loop, cond}
             \/ t[n].parent = cond /\ t[n].type \in clauses

Reported == IF analysis.done THEN DOMAIN analysis.functions ELSE {}
FunctionNode(i) == FindFunctions(lang, tree)[i].node
Metrics(i) == analysis.functions[i]
Rating(i) ==
    complexity_rating(Metrics(i).cyclomatic_complexity,
                      Metrics(i).cognitive_complexity)

\* ---------------------------------------------------------------------------
\* Properties of the complexity analyzers (SpecCx, SpecLoop)
\* ---------------------------------------------------------------------------
\* C2: maxNestingDepth starts from 0 at the function boundary: a
\* function with a linear body has depth 0 and a function whose deepest point
\* lies in three nested conditionals has depth 3.
C2_DepthFromZero ==
    \A i \in Reported :
       /\ IsLinear(lang, tree, FunctionNode(i))
             => Metrics(i).max_nesting_depth = 0
       /\ NestedConditionals(lang, tree, FunctionNode(i), 3)
             => Metrics(i).max_nesting_depth = 3

\* C3 (as stated): a function of one loop holding one if/elif/else chain has
\* cyclomatic complexity 3.
C3_ChainIsThree ==
    \A i \in Reported :
       (lang = "python"
        /\ LoopWithChain(lang, tree, FunctionNode(i), {"elif_clause", "else_clause"}))
          => Metrics(i).cyclomatic_complexity = 3

\* C3 (amended): a function of one loop holding one if/elif/else chain has
\* cyclomatic complexity 4 (base + loop + if + elif): the elif clause adds 1,
\* only the else clause adds nothing (the same function without the elif has 3).
C3_ChainIsFour ==
    \A i \in Reported :
       lang = "python" =>
          /\ LoopWithChain(lang, tree, FunctionNode(i), {"elif_clause", "else_clause"})
                => Metrics(i).cyclomatic_complexity = 4
          /\ LoopWithChain(lang, tree, FunctionNode(i), {"else_clause"})
                => Metrics(i).cyclomatic_complexity = 3

C3_Witness ==
    \E i \in Reported :
       /\ lang = "python"
       /\ LoopWithChain(lang, tree, FunctionNode(i), {"elif_clause", "else_clause"})
       /\ Metrics(i).cyclomatic_complexity = 4

\* C4: every function either analyzer reports has cyclomatic complexity >= 1.
C4_CyclomaticAtLeastOne ==
    \A i \in Reported : Metrics(i).cyclomatic_complexity >= 1

C4_Witness ==
    /\ lang = "typescript"
    /\ \E i \in Reported :
          /\ \E n \in Inside(tree, FunctionNode(i)) :
                tree[n].type = "binary_expression" /\ ~Ts_is_logical(tree[n])
          /\ Metrics(i).cyclomatic_complexity = 1

\* C5: a function with a linear body and no decision point has cyclomatic
\* complexity 1, cognitive complexity 0 and rating LOW.
C5_LinearFunction ==
    \A i \in Reported :
       IsLinear(lang, tree, FunctionNode(i)) =>
          /\ Metrics(i).cyclomatic_complexity = 1
          /\ Metrics(i).cognitive_complexity = 0
          /\ Rating(i) = "LOW"

C5_Witness ==
    /\ lang = "python"
    /\ \E i \in Reported :
          /\ IsLinear(lang, tree, FunctionNode(i))
          /\ Cardinality(Inside(tree, FunctionNode(i))) = 1
          /\ Rating(i) = "LOW"

NestingKinds(l) == IF l = "python" THEN PYTHON_NESTING_NODES ELSE TS_NESTING_NODES

CalculateMaxNesting(l, t, n) ==
    IF l = "python" THEN Py_calculate_max_nesting(t, n)
    ELSE Ts_calculate_max_nesting(t, n)

\* The number of nodes of a kind in kinds on the path from f down to n.
RECURSIVE PathCount(_, _, _, _)
PathCount(t, f, n, kinds) ==
    (IF t[n].type \in kinds THEN 1 ELSE 0)
    + (IF n = f THEN 0 ELSE PathCount(t, f, t[n].parent, kinds))

\* The nodes of t in the order of a traversal that visits the children of
\* every node last to first, and t with its nodes renumbered in that order:
\* the same tree with every list of siblings reversed.
RECURSIVE MirrorOrder(_, _), MirrorKids(_, _)
MirrorOrder(t, n) == <<n>> \o MirrorKids(t, Children(t, n))
MirrorKids(t, S) ==
    IF S = {} THEN <<>>
    ELSE LET c == Max(S)
         IN  MirrorOrder(t, c) \o MirrorKids(t, S \ {c})
MirrorIndex(t, n) ==
    LET order == MirrorOrder(t, 1)
    IN  CHOOSE i \in 1..Len(order) : order[i] = n
Mirror(t) ==
    LET order == MirrorOrder(t, 1)
    IN  [i \in 1..Len(t) |->
            [t[order[i]] EXCEPT
               !.parent = IF @ = 0 THEN 0 ELSE MirrorIndex(t, @)]]

\* C20: max_nesting_depth of a function is the maximum, over the paths from
\* the function node to the nodes of its subtree, of the number of nodes of a
\* nesting kind on the path (a maximum and not a sum over siblings); it is
\* the same with every list of siblings reversed, and it was never greater
\* before the later nodes of the subtree were added.
C20_DeepestPath ==
    \A i \in Reported :
       LET f == FunctionNode(i)
       IN  /\ Metrics(i).max_nesting_depth =
                 Max({PathCount(tree, f, n, NestingKinds(lang))
                         : n \in {f} \cup Inside(tree, f)})
           /\ CalculateMaxNesting(lang, Mirror(tree), MirrorIndex(tree, f))
                 = Metrics(i).max_nesting_depth
           /\ \A k \in f..Len(tree) :
                 CalculateMaxNesting(lang, SubSeq(tree, 1, k), f)
                    <= Metrics(i).max_nesting_depth

\* Two sibling conditionals, the first one holding a third: the depth is that
\* of the deepest path (function, if, if), not a sum over the siblings.
C20_Witness ==
    \E i \in Reported :
       LET f == FunctionNode(i)
       IN  /\ Cardinality({n \in Children(tree, f) : tree[n].type = "if_statement"}) = 2
           /\ \E n \in Inside(tree, f) :
                 /\ tree[n].type = "if_statement"
                 /\ tree[n].parent # f
                 /\ tree[tree[n].parent].type = "if_statement"
           /\ Metrics(i).max_nesting_depth = 3

\* ---------------------------------------------------------------------------
\* Properties of the complexity analyzers on defective trees (SpecWide)
\* ---------------------------------------------------------------------------
IsNameless(node) ==
    /\ node.type \in {"function_definition", "function_declaration",
                       "method_definition"}
    /\ node.name = NONE

\* The tree with a name given to every function node that has none.
Named(t) ==
    [n \in DOMAIN t |-> IF IsNameless(t[n]) THEN [t[n] EXCEPT !.name = <<"g">>]
                        ELSE t[n]]

RECURSIVE NamedOnly(_, _)
\* Of the metrics ms of the functions fs, those of the functions named in tree.
NamedOnly(ms, fs) ==
    IF fs = <<>> THEN <<>>
    ELSE (IF IsNameless(tree[Head(fs).node]) THEN <<>> ELSE <<Head(ms)>>)
         \o NamedOnly(Tail(ms), Tail(fs))

\* C14: analyze() returns on a tree with nameless function nodes; it reports
\* no nameless function and every named one, those nested in a nameless
\* function included, each with the metrics it has when every function of the
\* file has a name.
C14_NamelessSkipped ==
    analysis.done =>
       /\ \A i \in Reported : ~IsNameless(tree[FunctionNode(i)])
       /\ Len(analysis.functions) =
             Cardinality({n \in 1..Len(tree) :
                             /\ tree[n].type \in {"function_definition",
                                                   "function_declaration"}
                             /\ tree[n].name # NONE})
       /\ analysis.functions =
             NamedOnly(Analyze(lang, Named(tree)), FindFunctions(lang, Named(tree)))

\* A named function inside a nameless one is reported.
C14_Witness ==
    /\ lang = "python"
    /\ \E i \in Reported : \E n \in 1..Len(tree) :
          /\ IsNameless(tree[n])
          /\ IsInside(tree, n, FunctionNode(i))
          /\ Metrics(i).name = FN

\* A node of a decision kind of the language; a TypeScript binary_expression
\* is one only with the operator && or ||.
IsDecision(l, node) ==
    IF l = "python" THEN node.type \in PYTHON_DECISION_POINTS
    ELSE /\ node.type \in TS_DECISION_POINTS
         /\ node.type = "binary_expression" => node.operator \in {OpAnd, OpOr}

\* C17: cyclomatic complexity is 1 plus the number of nodes of a decision kind
\* in the function's subtree, at any depth; every logical-operator node counts
\* once whatever its operands, a TypeScript binary_expression only with && or
\* ||.
C17_CyclomaticCount ==
    \A i \in Reported :
       Metrics(i).cyclomatic_complexity =
          1 + Cardinality({n \in {FunctionNode(i)} \cup Inside(tree, FunctionNode(i)) :
                              IsDecision(lang, tree[n])})

\* A TypeScript function whose && has a + as operand: the && counts, the +
\* does not.
C17_Witness ==
    /\ lang = "typescript"
    /\ \E i \in Reported : \E n, m \in Inside(tree, FunctionNode(i)) :
          /\ tree[n].type = "binary_expression" /\ tree[n].operator = OpAnd
          /\ tree[m].type = "binary_expression" /\ tree[m].operator = OpPlus
          /\ tree[m].parent = n
          /\ Metrics(i).cyclomatic_complexity = 2

\* The nesting level at which the cognitive traversal of function f visits
\* node n, when the kinds in raising raise the level of their children: the
\* number of nodes of such a kind strictly between f and n.
RECURSIVE Level(_, _, _, _)
Level(t, f, n, raising) ==
    IF n = f \/ t[n].parent = f THEN 0
    ELSE (IF t[t[n].parent].type \in raising THEN 1 ELSE 0)
         + Level(t, f, t[n].parent, raising)

\* Conditionals, loops and exception handlers; the constructs that add 1 only.
LevelSensitive ==
    {"if_statement", "elif_clause", "for_statement", "for_in_statement",
     "while_statement", "do_statement", "except_clause", "catch_clause",
     "conditional_expression", "ternary_expression"}
AddsOne(node) ==
    \/ node.type \in {"else_clause", "switch_case", "boolean_operator"}
    \/ node.type = "binary_expression" /\ node.operator \in {OpAnd, OpOr}

\* The total of the nodes S of function f, when a node of a kind in chained
\* adds 1, a conditional, loop or handler at level L adds 1 + L, an else
\* clause, a switch case or a logical operator adds 1 and nothing else adds.
RECURSIVE CognitiveTotal(_, _, _, _, _)
CognitiveTotal(t, f, S, raising, chained) ==
    IF S = {} THEN 0
    ELSE LET n == Min(S)
         IN  (IF t[n].type \in chained THEN 1
              ELSE IF t[n].type \in LevelSensitive THEN 1 + Level(t, f, n, raising)
              ELSE IF AddsOne(t[n]) THEN 1
              ELSE 0)
             + CognitiveTotal(t, f, S \ {n}, raising, chained)

\* Conditional statements, loops and try blocks.
StatedRaising ==
    {"if_statement", "switch_statement", "for_statement", "for_in_statement",
     "while_statement", "do_statement", "try_statement"}
\* The same and, in Python, with blocks.
Raising(l) ==
    IF l = "python" THEN StatedRaising \cup {"with_statement"} ELSE StatedRaising

\* C18 (as stated): the level is 0 at the function boundary, a conditional
\* statement, a loop or a try block passes its own level plus 1 to its
\* children and every other node passes its level unchanged; a conditional,
\* loop or exception handler visited at level L adds 1 + L.
C18_LevelsAsStated ==
    \A i \in Reported :
       Metrics(i).cognitive_complexity =
          CognitiveTotal(tree, FunctionNode(i), Inside(tree, FunctionNode(i)),
                         StatedRaising, {})

\* C18 (amended): the same, where the nodes that pass their level plus 1 are
\* the if and switch statements, the loops, the try blocks and, in Python,
\* the with blocks; elif clauses, ternaries, handlers and nested functions
\* pass their level unchanged.
C18_LevelsWithBlocks ==
    \A i \in Reported :
       Metrics(i).cognitive_complexity =
          CognitiveTotal(tree, FunctionNode(i), Inside(tree, FunctionNode(i)),
                         Raising(lang), {})

\* An if directly inside a with block adds 2, as it does directly inside a loop.
C18_Witness ==
    /\ lang = "python"
    /\ \E i \in Reported : \E w, c \in Inside(tree, FunctionNode(i)) :
          /\ tree[w].type = "with_statement"
          /\ tree[w].parent = FunctionNode(i)
          /\ tree[c].type = "if_statement"
          /\ tree[c].parent = w
          /\ Inside(tree, FunctionNode(i)) = {w, c}
          /\ Metrics(i).cognitive_complexity = 2

\* C19: an elif clause or an else clause adds exactly 1 to cognitive
\* complexity, with no nesting increment, at whatever level it occurs.
C19_ChainedElseAddsOne ==
    \A i \in Reported :
       Metrics(i).cognitive_complexity =
          CognitiveTotal(tree, FunctionNode(i), Inside(tree, FunctionNode(i)),
                         Raising(lang), {"elif_clause", "else_clause"})

\* The parser flags a tree as containing a syntax error when it holds an
\* ERROR node (tree.root_node.has_error).
has_error(t) == \E n \in 1..Len(t) : t[n].type = "ERROR"

\* C15: the FileAnalysis of a tree flagged as containing a syntax error
\* carries a partial-parse marker: analyze() returns and the value it returns
\* tells a consumer that the parse was partial.
C15_PartialParseMarked ==
    (analysis.done /\ has_error(tree)) => analysis.parse_errors # <<>>

\* ---------------------------------------------------------------------------
\* Properties of nested against sequential conditionals (SpecChain)
\* ---------------------------------------------------------------------------
\* C6: with n >= 2 conditionals, the function that nests them has strictly
\* greater cognitive complexity than the function that has them in sequence,
\* and both have the same cyclomatic complexity.
C6_NestedBeatsSequential ==
    (pairResult.done /\ Count(nested, "if_statement") >= 2) =>
       /\ pairResult.functions[1].cognitive_complexity
             > pairResult.functions[2].cognitive_complexity
       /\ pairResult.functions[1].cyclomatic_complexity
             = pairResult.functions[2].cyclomatic_complexity

C6_Witness ==
    /\ pairResult.done
    /\ lang = "python"
    /\ Count(nested, "if_statement") = 3
    /\ Count(sequential, "if_statement") = 3
    /\ NestedConditionals(lang, nested, 2, 3)
    /\ NestedConditionals(lang, sequential, 2, 1)
    /\ pairResult.functions[1].cognitive_complexity = 6
    /\ pairResult.functions[2].cognitive_complexity = 3

\* ---------------------------------------------------------------------------
\* Properties of the dead-code detector (SpecDead, SpecSingle)
\* ---------------------------------------------------------------------------
Returned == project.status = "returned"

\* The files of the project with an analysis, and every definition occurrence.
SourceFiles == {i \in DOMAIN files : Supported(files[i].path)}
Occurrences == {<<i, k>> : i \in SourceFiles, k \in 1..MaxDefs + 1} \cap
               UNION {{<<i, k>> : k \in DOMAIN files[i].definitions} : i \in SourceFiles}
Defn(o) == files[o[1]].definitions[o[2]]

\* The names called in file i, and the names imported by any file.
NamesCalledIn(i) == {files[i].references[k].name : k \in DOMAIN files[i].references}
ImportedNames == UNION {DOMAIN files[i].imports : i \in SourceFiles}

IsPrivateName(d) == d.is_private \/ (Len(d.name) > 0 /\ Head(d.name) = "_")
IsPublicKind(d) == d.kind = "function" \/ d.kind = "class" \/ d.kind = "constant"
IsCandidate(o) == Defn(o).name \notin NamesCalledIn(o[1])

\* How many entries each bucket holds for occurrence o:
\* <<private_unused, exported_but_unused, single_file_dead_code of its file>>.
EntryIsFor(e, o) ==
    e.name = Defn(o).name /\ e.kind = Defn(o).kind /\ e.line = Defn(o).line
Placement(o) ==
    LET r == project.results
        path == files[o[1]].path
        own == IF path \in DOMAIN r.single_file_dead_code
               THEN r.single_file_dead_code[path] ELSE <<>>
    IN  <<Cardinality({j \in DOMAIN r.private_unused :
                          /\ r.private_unused[j].file = path
                          /\ EntryIsFor(r.private_unused[j], o)}),
          Cardinality({j \in DOMAIN r.exported_but_unused :
                          /\ r.exported_but_unused[j].file = path
                          /\ EntryIsFor(r.exported_but_unused[j], o)}),
          Cardinality({j \in DOMAIN own : EntryIsFor(own[j], o)})>>

\* The names that occur in any bucket.
BucketNames ==
    LET r == project.results
    IN  {r.private_unused[j].name : j \in DOMAIN r.private_unused}
        \cup {r.exported_but_unused[j].name : j \in DOMAIN r.exported_but_unused}
        \cup UNION {{r.single_file_dead_code[q][j].name
                       : j \in DOMAIN r.single_file_dead_code[q]}
                       : q \in DOMAIN r.single_file_dead_code}

\* C1 (as stated): every same-file dead candidate lands in exactly one bucket:
\* private_unused if private; otherwise exported_but_unused if exported or of
\* a public kind and not in the import index; otherwise single_file_dead.
C1_EveryCandidateBucketed ==
    Returned =>
       \A o \in Occurrences :
          IsCandidate(o) =>
             Placement(o) =
                IF IsPrivateName(Defn(o)) THEN <<1, 0, 0>>
                ELSE IF (Defn(o).is_exported \/ IsPublicKind(Defn(o)))
                        /\ Defn(o).name \notin ImportedNames
                THEN <<0, 1, 0>>
                ELSE <<0, 0, 1>>

\* C1 (amended): the import index is consulted first: a same-file dead
\* candidate whose name is in the global import index lands in no bucket;
\* every other candidate lands in exactly one: private_unused if private,
\* otherwise exported_but_unused if exported or of kind function/class/constant,
\* otherwise single_file_dead under its file.
C1_ImportIndexFirst ==
    Returned =>
       \A o \in Occurrences :
          IsCandidate(o) =>
             Placement(o) =
                IF Defn(o).name \in ImportedNames THEN <<0, 0, 0>>
                ELSE IF IsPrivateName(Defn(o)) THEN <<1, 0, 0>>
                ELSE IF Defn(o).is_exported \/ IsPublicKind(Defn(o))
                THEN <<0, 1, 0>>
                ELSE <<0, 0, 1>>

C1_Witness ==
    /\ Returned
    /\ \E o, p \in Occurrences :
          /\ IsCandidate(o) /\ IsCandidate(p)
          /\ Placement(o) = <<0, 1, 0>>
          /\ Placement(p) = <<0, 0, 1>>
    /\ ImportedNames # {}

\* C7: a definition whose name is referenced in its own file is in no bucket,
\* and a name imported by any analyzed file is in no bucket at all.
C7_UsedIsNotDead ==
    Returned =>
       \A o \in Occurrences :
          /\ ~IsCandidate(o) => Placement(o) = <<0, 0, 0>>
          /\ Defn(o).name \in ImportedNames => Defn(o).name \notin BucketNames

\* File 1 defines and calls f, file 2 imports and calls f.
C7_Witness ==
    /\ Returned
    /\ Len(files) = 2
    /\ \E k \in DOMAIN files[1].definitions : files[1].definitions[k].name = <<"f">>
    /\ <<"f">> \in NamesCalledIn(1)
    /\ <<"f">> \in DOMAIN files[2].imports
    /\ <<"f">> \in NamesCalledIn(2)
    /\ <<"f">> \notin BucketNames

\* C8: a private definition (leading underscore or private modifier) that is
\* referenced nowhere in its file and imported by no file is in private_unused
\* and in no other bucket, whatever its kind.
C8_PrivateUnused ==
    Returned =>
       \A o \in Occurrences :
          (/\ IsPrivateName(Defn(o))
           /\ IsCandidate(o)
           /\ Defn(o).name \notin ImportedNames)
             => Placement(o) = <<1, 0, 0>>

C8_Witness ==
    /\ Returned
    /\ \E o, p \in Occurrences :
          /\ Defn(o).kind = "class" /\ ~Defn(o).is_private
          /\ Placement(o) = <<1, 0, 0>>
          /\ Defn(p).kind = "method" /\ Defn(p).is_private
          /\ Defn(p).name = <<"f">>
          /\ Placement(p) = <<1, 0, 0>>

\* The same project with its files listed in another order.
Reordered(p) == [i \in DOMAIN files |-> files[p[i]]]

\* Two reports hold the same entries in every bucket (the entries of
\* private_unused and exported_but_unused name their file).
SameBuckets(r, q) ==
    /\ Len(r.private_unused) = Len(q.private_unused)
    /\ {r.private_unused[j] : j \in DOMAIN r.private_unused}
          = {q.private_unused[j] : j \in DOMAIN q.private_unused}
    /\ Len(r.exported_but_unused) = Len(q.exported_but_unused)
    /\ {r.exported_but_unused[j] : j \in DOMAIN r.exported_but_unused}
          = {q.exported_but_unused[j] : j \in DOMAIN q.exported_but_unused}
    /\ r.single_file_dead_code = q.single_file_dead_code

\* C11: the import index is complete before any definition is classified: an
\* import in a file listed later suppresses a candidate of a file listed
\* earlier, and the buckets are the same for every order of the file list.
C11_OrderIndependent ==
    Returned =>
       /\ \A o \in Occurrences : \A j \in SourceFiles :
             (j > o[1] /\ Defn(o).name \in DOMAIN files[j].imports)
                => Placement(o) = <<0, 0, 0>>
       /\ \A p \in Permutations(DOMAIN files) :
             SameBuckets(project.results, analyze_project(Reordered(p)).results)

\* File 1 defines f and does not use it, file 2 (listed later) imports f.
C11_Witness ==
    /\ Returned
    /\ Len(files) = 2
    /\ \E o \in Occurrences :
          /\ o[1] = 1
          /\ IsCandidate(o)
          /\ Defn(o).name \notin DOMAIN files[1].imports
          /\ Defn(o).name \in DOMAIN files[2].imports
          /\ Placement(o) = <<0, 0, 0>>

\* C10: when the analysis of one file of a multi-file project fails while
\* another file can be analyzed, analyze_project still returns, with the report
\* it gives for the files that could be analyzed.
C10_FailureTolerated ==
    (/\ project.status # "not_run"
     /\ \E i \in SourceFiles : ~files[i].readable
     /\ \E i \in SourceFiles : files[i].readable)
       => /\ project.status = "returned"
          /\ LET rest == analyze_project(SelectSeq(files, LAMBDA f : f.readable)).results
             IN  /\ project.results.private_unused = rest.private_unused
                 /\ project.results.exported_but_unused = rest.exported_but_unused
                 /\ project.results.single_file_dead_code = rest.single_file_dead_code

\* C9: dead_candidates of analyze_single_file is the subsequence, in definition
\* order, of the definitions of the file whose name no reference of the same
\* file has; imports and other files play no part.
C9_DeadCandidates ==
    single.status = "returned" =>
       \E i \in DOMAIN files :
          /\ files[i].path = single.file
          /\ LET defs == files[i].definitions
                 dead == single.dead_candidates
                 unreferenced == {k \in DOMAIN defs : defs[k].name \notin NamesCalledIn(i)}
             IN  /\ Len(dead) = Cardinality(unreferenced)
                 /\ \A k \in unreferenced : \E j \in DOMAIN dead : dead[j] = defs[k]
                 /\ \A j \in DOMAIN dead : \E k \in unreferenced : dead[j] = defs[k]
                 /\ \A j, m \in DOMAIN dead : j < m => dead[j].line < dead[m].line

C9_Witness ==
    /\ single.status = "returned"
    /\ Len(single.definitions) = 2
    /\ Len(single.dead_candidates) = 1
    /\ single.dead_candidates[1] = single.definitions[2]
    /\ single.dead_candidates[1].name \in DOMAIN single.imports
    /\ \E i \in DOMAIN files :
          files[i].path # single.file /\ single.dead_candidates[1].name \in NamesCalledIn(i)

\* ---------------------------------------------------------------------------
\* Properties of FunctionMetrics (SpecMetrics)
\* ---------------------------------------------------------------------------
\* The five metrics in evaluation order, with the text of their descriptors.
SmellTexts ==
    <<"High cyclomatic complexity", "High cognitive complexity", "Deep nesting",
      "Long function", "Too many parameters">>
Limits == <<10, 15, 4, 50, 5>>
MetricValue(k) ==
    CASE k = 1 -> metrics.cyclomatic_complexity
      [] k = 2 -> metrics.cognitive_complexity
      [] k = 3 -> metrics.max_nesting_depth
      [] k = 4 -> metrics.line_count
      [] k = 5 -> metrics.parameter_count
Breaches == {k \in 1..5 : MetricValue(k) > Limits[k]}
SmellRank(text) == CHOOSE k \in 1..5 : SmellTexts[k] = text

\* C12: after detect_smells the list holds exactly one descriptor for each
\* metric strictly above its threshold (10, 15, 4, 50, 5) and none for a metric
\* at or below it, in the order cyclomatic, cognitive, nesting, length,
\* parameters; a second detection leaves the same list, without duplicates.
C12_SmellsPerBreach ==
    detections >= 1 =>
       LET smells == metrics.code_smells
       IN  /\ Len(smells) = Cardinality(Breaches)
           /\ \A k \in Breaches : \E j \in DOMAIN smells :
                 /\ smells[j].text = SmellTexts[k]
                 /\ smells[j].value = MetricValue(k)
                 /\ smells[j].threshold = Limits[k]
           /\ \A j, m \in DOMAIN smells :
                 j < m => SmellRank(smells[j].text) < SmellRank(smells[m].text)

\* Detected twice: cyclomatic and length at their thresholds, nesting and
\* parameters above.
C12_Witness ==
    /\ detections = 2
    /\ metrics.cyclomatic_complexity = 10
    /\ metrics.line_count = 50
    /\ metrics.max_nesting_depth = 5
    /\ metrics.parameter_count = 6
    /\ Len(metrics.code_smells) = 2
    /\ metrics.code_smells[1].text = "Deep nesting"
    /\ metrics.code_smells[2].text = "Too many parameters"

Band(sum) ==
    IF sum <= 6 THEN "LOW"
    ELSE IF sum <= 16 THEN "MEDIUM"
    ELSE IF sum <= 30 THEN "HIGH"
    ELSE "VERY HIGH"
RatingRank(r) ==
    CASE r = "LOW" -> 1 [] r = "MEDIUM" -> 2 [] r = "HIGH" -> 3 [] r = "VERY HIGH" -> 4
MetricsSum == metrics.cyclomatic_complexity + metrics.cognitive_complexity

\* C13: on s = cyclomatic + cognitive the rating is LOW iff s <= 6, MEDIUM iff
\* 7 <= s <= 16, HIGH iff 17 <= s <= 30, VERY HIGH iff s >= 31 (the average is
\* not truncated), and no smaller sum gets a higher rating.
C13_RatingBands ==
    rating # NotRated =>
       /\ rating = Band(MetricsSum)
       /\ \A c \in 1..MaxCyclomatic, g \in 0..MaxCognitive :
             c + g <= MetricsSum
                => RatingRank(complexity_rating(c, g)) <= RatingRank(rating)

\* An odd sum just above a band: avg = 3.5 is MEDIUM.
C13_Witness ==
    /\ rating = "MEDIUM"
    /\ MetricsSum = 7

Extracted == extraction.analysis
Definitions == Extracted.definitions
References == Extracted.references
Identifiers == {n \in 1..Len(tree) : tree[n].type = "identifier"}
ParentType(n) == tree[tree[n].parent].type

\* The definition sites of the claim: the name of a function, class or method,
\* a parameter name, the left-hand side of an assignment or declaration.
IsDefinedName(n) ==
    /\ tree[n].field = "name"
    /\ ParentType(n) \in {"function_definition", "class_definition",
                          "function_declaration", "class_declaration",
                          "method_definition"}
IsParameterName(n) ==
    \/ ParentType(n) \in {"parameters", "formal_parameters"}
    \/ ParentType(n) = "required_parameter" /\ tree[n].field = "pattern"
IsLeftHandSide(n) ==
    \/ ParentType(n) = "assignment" /\ tree[n].field = "left"
    \/ ParentType(n) = "variable_declarator" /\ tree[n].field = "name"
IsRightHandSide(n) ==
    \/ ParentType(n) = "assignment" /\ tree[n].field = "right"
    \/ ParentType(n) = "variable_declarator" /\ tree[n].field = "value"
IsDefinitionSite(n) == IsDefinedName(n) \/ IsParameterName(n) \/ IsLeftHandSide(n)

\* Node n lies in an import statement (the claim's list of positions says
\* nothing about the names an import binds).
RECURSIVE InImport(_)
InImport(n) ==
    /\ n # 0
    /\ \/ tree[n].type \in {"import_statement", "import_from_statement"}
       \/ InImport(tree[n].parent)

SkippedNames == IF lang = "python" THEN PY_SKIPPED_NAMES ELSE TS_SKIPPED_NAMES

\* The identifier at node n was recorded as an access reference of its own.
AccessAt(n) ==
    \E i \in DOMAIN References :
       References[i] = Reference(tree[n].name, StartLine(tree, n), "access")

\* C21: an identifier yields an access reference exactly when its position is
\* not a definition site and its name is not in the exclusion list; so a
\* parameter name yields none and an identifier that is the right-hand side
\* of an assignment or declaration yields one.
C21_AccessUnlessDefinitionSite ==
    extraction.done =>
       \A n \in {i \in Identifiers : ~InImport(i)} :
          AccessAt(n) <=> (~IsDefinitionSite(n) /\ tree[n].name \notin SkippedNames)

\* The declaration node a Definition was recorded for (every node of the model
\* starts on a line of its own).
SiteOf(d) == d.line
IsWrappedByExport(n) == tree[n].parent # 0 /\ ParentType(n) = "export_statement"

\* C22: a Definition is marked exported only if its own declaration is
\* directly wrapped by an export statement: neither a member method of an
\* exported class nor a definition recorded before the export statement is
\* marked.
C22_ExportedOnlyIfWrapped ==
    extraction.done =>
       \A i \in DOMAIN Definitions :
          Definitions[i].is_exported => IsWrappedByExport(SiteOf(Definitions[i]))

\* The accessibility modifier written at a definition site, or NONE.
ModifierAt(n) ==
    LET S == {c \in Children(tree, n) : tree[c].type = "accessibility_modifier"}
    IN  IF S = {} THEN NONE ELSE tree[Min(S)].name
PrivateModifier == <<"p", "r", "i", "v", "a", "t", "e">>
HasLeadingUnderscore(d) == d.name # <<>> /\ Head(d.name) = "_"

\* C23 (as stated): in both extractors and for every kind, a Definition with
\* a leading underscore and no explicit modifier is recorded as private, and
\* one with neither a leading underscore nor a private modifier is not.
C23_UnderscoreIsPrivate ==
    extraction.done =>
       \A i \in DOMAIN Definitions :
          LET d == Definitions[i]
              modifier == ModifierAt(SiteOf(d))
          IN  /\ HasLeadingUnderscore(d) /\ modifier = NONE => d.is_private
              /\ ~HasLeadingUnderscore(d) /\ modifier # PrivateModifier => ~d.is_private

\* C23 (amended): is_private is set from the leading underscore for Python
\* functions and methods only and from the private modifier for TypeScript
\* methods only; every other Definition is recorded with is_private = FALSE,
\* whatever its name.
C23_PrivateFromNameOrModifier ==
    extraction.done =>
       \A i \in DOMAIN Definitions :
          LET d == Definitions[i]
          IN  d.is_private <=>
                 \/ /\ lang = "python"
                    /\ d.kind \in {"function", "method"}
                    /\ HasLeadingUnderscore(d)
                 \/ /\ lang = "typescript"
                    /\ d.kind = "method"
                    /\ ModifierAt(SiteOf(d)) = PrivateModifier

\* A Python file with an underscore function (recorded as private) and an
\* underscore class (not recorded as private).
C23_Witness ==
    /\ extraction.done
    /\ lang = "python"
    /\ \E i, j \in DOMAIN Definitions :
          /\ HasLeadingUnderscore(Definitions[i])
          /\ Definitions[i].kind = "function"
          /\ Definitions[i].is_private
          /\ HasLeadingUnderscore(Definitions[j])
          /\ Definitions[j].kind = "class"
          /\ ~Definitions[j].is_private

\* The import sites of the tree: the imported names of a Python from-import
\* and the import specifiers of a TypeScript import.
ImportSites ==
    {n \in 1..Len(tree) :
        \/ /\ tree[n].field = "name"
           /\ tree[n].parent # 0
           /\ ParentType(n) = "import_from_statement"
        \/ tree[n].type = "import_specifier"}
IsAliased(n) == ChildByField(tree, n, "alias") # 0
OriginalName(n) ==
    IF tree[n].type = "dotted_name" THEN tree[n].name
    ELSE tree[ChildByField(tree, n, "name")].name
LocalName(n) ==
    IF IsAliased(n) THEN tree[ChildByField(tree, n, "alias")].name
    ELSE OriginalName(n)
\* The module an import site imports from, as text without quotes.
ModuleOf(n) ==
    IF lang = "python"
    THEN tree[ChildByField(tree, tree[n].parent, "module_name")].name
    ELSE LET statement == CHOOSE s \in 1..Len(tree) :
                             /\ tree[s].type = "import_statement"
                             /\ n \in s..LastDescendant(tree, s)
             text == tree[ChildByField(tree, statement, "source")].name
         IN  SubSeq(text, 2, Len(text) - 1)

\* C24 (as stated): the imports mapping is keyed by the locally-bound names
\* (the alias where one is given, not the original name), each mapped to the
\* module string.
C24_KeyedByLocalName ==
    extraction.done =>
       /\ DOMAIN Extracted.imports = {LocalName(n) : n \in ImportSites}
       /\ \A n \in ImportSites : Extracted.imports[LocalName(n)] = ModuleOf(n)

\* C24 (amended): the mapping is keyed by the original name of each imported
\* symbol, mapped to the module string; a Python alias is no key, a
\* TypeScript alias is a key as well.
C24_KeyedByOriginalName ==
    extraction.done =>
       /\ DOMAIN Extracted.imports =
             {OriginalName(n) : n \in ImportSites}
             \cup {LocalName(n) : n \in {s \in ImportSites : lang = "typescript"}}
       /\ \A n \in ImportSites : Extracted.imports[OriginalName(n)] = ModuleOf(n)
       /\ \A n \in ImportSites :
             lang = "typescript" => Extracted.imports[LocalName(n)] = ModuleOf(n)

\* A Python file with `from m import f as g` has been analyzed: f is a key and
\* g is not.
C24_Witness ==
    /\ extraction.done
    /\ lang = "python"
    /\ \E n \in ImportSites :
          /\ IsAliased(n)
          /\ OriginalName(n) \in DOMAIN Extracted.imports
          /\ LocalName(n) \notin DOMAIN Extracted.imports

\* The syntactic definition sites of the tree: named functions, classes and
\* methods and the const declarations of a name.
DefinitionSites ==
    {n \in 1..Len(tree) :
        \/ /\ tree[n].type \in {"function_definition", "class_definition",
                                "function_declaration", "class_declaration",
                                "method_definition"}
           /\ ChildByField(tree, n, "name") # 0
        \/ /\ tree[n].type = "lexical_declaration"
           /\ \E c \in Children(tree, n) :
                 /\ ChildByField(tree, c, "name") # 0
                 /\ tree[ChildByField(tree, c, "name")].type = "identifier"}
EntriesFor(n) == {i \in DOMAIN Definitions : Definitions[i].line = StartLine(tree, n)}
\* The member methods of the tree, each with its class: the functions and
\* methods that are children of the body of a class.
MemberMethods ==
    {<<n, c>> \in (1..Len(tree)) \X (1..Len(tree)) :
        /\ tree[n].type \in {"function_definition", "method_definition"}
        /\ tree[c].type \in {"class_definition", "class_declaration"}
        /\ tree[n].parent = ChildByField(tree, c, "body")}

\* C25: every definition site yields exactly one Definition, and a member
\* method is recorded with the name of its class as parent scope.
C25_EverySiteOnce ==
    extraction.done =>
       /\ \A n \in DefinitionSites : Cardinality(EntriesFor(n)) = 1
       /\ \A m \in MemberMethods :
             \A i \in EntriesFor(m[1]) :
                Definitions[i].parent_class =
                   tree[ChildByField(tree, m[2], "name")].name

\* The call expressions of the tree whose callee is a name, and those whose
\* callee is an attribute or member of an object that is a name.
Calls == {n \in 1..Len(tree) : tree[n].type \in {"call", "call_expression"}}
Callee(n) == ChildByField(tree, n, "function")
NameCalls == {n \in Calls : tree[Callee(n)].type = "identifier"}
MemberCalls ==
    {n \in Calls : /\ tree[Callee(n)].type \in {"attribute", "member_expression"}
                   /\ ChildByField(tree, Callee(n), "object") # 0
                   /\ tree[ChildByField(tree, Callee(n), "object")].type = "identifier"}
ObjectOf(n) == ChildByField(tree, Callee(n), "object")
MethodOf(n) ==
    IF lang = "python" THEN ChildByField(tree, Callee(n), "attribute")
    ELSE ChildByField(tree, Callee(n), "property")
CallEntries(name) ==
    {i \in DOMAIN References :
        References[i].name = name /\ References[i].context = "call"}
CallsOf(name) ==
    {n \in NameCalls : tree[Callee(n)].name = name}
    \cup {n \in MemberCalls : tree[MethodOf(n)].name = name}
Recorded(name, context) ==
    \E i \in DOMAIN References :
       References[i].name = name /\ References[i].context = context
CalledNames ==
    {tree[Callee(n)].name : n \in NameCalls}
    \cup {tree[MethodOf(n)].name : n \in MemberCalls}

\* What C26 says of every call, but for the object of a member call.
CallsRecorded ==
    /\ \A n \in NameCalls :
          \E i \in DOMAIN References :
             References[i] = Reference(tree[Callee(n)].name, StartLine(tree, n), "call")
    /\ \A n \in MemberCalls :
          \E i \in DOMAIN References :
             References[i] = Reference(tree[MethodOf(n)].name, StartLine(tree, n), "call")
    /\ \A name \in CalledNames :
          Cardinality(CallEntries(name)) >= Cardinality(CallsOf(name))

\* C26 (as stated): a call yields a call reference named after its callee, a
\* member call obj.m() one named m and an access reference named obj, and n
\* calls of a name yield at least n call entries.
C26_CallAndObjectRecorded ==
    extraction.done =>
       /\ CallsRecorded
       /\ \A n \in MemberCalls : Recorded(tree[ObjectOf(n)].name, "access")

\* C26 (amended): as above, but the object of a member call is recorded by
\* the call branch in Python only (on the line of the call, whatever its
\* name); in TypeScript it is recorded by the identifier branch, hence not
\* when its name is in the exclusion list.
C26_CallRecordedObjectUnlessSkipped ==
    extraction.done =>
       /\ CallsRecorded
       /\ \A n \in MemberCalls :
             LET obj == ObjectOf(n)
             IN  IF lang = "python"
                 THEN \E i \in DOMAIN References :
                         References[i] =
                            Reference(tree[obj].name, StartLine(tree, n), "access")
                 ELSE Recorded(tree[obj].name, "access")
                         <=> tree[obj].name \notin TS_SKIPPED_NAMES

\* A TypeScript file with two calls of one name and a member call on console
\* has been analyzed.
C26_Witness ==
    /\ extraction.done
    /\ lang = "typescript"
    /\ \E name \in CalledNames : Cardinality(CallsOf(name)) >= 2
    /\ \E n \in MemberCalls : tree[ObjectOf(n)].name \in TS_SKIPPED_NAMES

\* ---------------------------------------------------------------------------
\* Claims about the global indexes and the buckets (SpecDead)
\* ---------------------------------------------------------------------------
\* The definitions index at the point where the first loop of analyze_project
\* has processed the first k - 1 analyses and the first j definitions of the
\* k-th.
IndexAt(k, j) ==
    LET analyses == Analyses(files)
    IN  IndexDefinitions(all_definitions(<<>>, SubSeq(analyses, 1, k - 1)),
                         analyses[k].file_path,
                         SubSeq(analyses[k].definitions, 1, j))
\* The definitions processed at that point, as <<analysis, position>>, and the
\* most recently processed one of a name.
ProcessedAt(k, j) ==
    LET analyses == Analyses(files)
    IN  {<<a, d>> \in (1..k) \X (1..MaxDefs + 1) :
            /\ d \in DOMAIN analyses[a].definitions
            /\ a = k => d <= j}
LatestAt(k, j, name) ==
    LET analyses == Analyses(files)
        S == {o \in ProcessedAt(k, j) : analyses[o[1]].definitions[o[2]].name = name}
    IN  CHOOSE o \in S : \A q \in S : q[1] < o[1] \/ (q[1] = o[1] /\ q[2] <= o[2])

\* C27: at every point of the first loop the index holds, for each name
\* defined so far, the (file, definition) pair of the most recently processed
\* definition of that name and nothing else; after the loop it has one entry
\* per distinct name.
C27_IndexKeepsLatest ==
    Returned =>
       LET analyses == Analyses(files)
       IN  /\ \A k \in DOMAIN analyses : \A j \in 0..Len(analyses[k].definitions) :
                 LET index == IndexAt(k, j)
                     names == {analyses[o[1]].definitions[o[2]].name
                                  : o \in ProcessedAt(k, j)}
                 IN  /\ DOMAIN index = names
                     /\ \A name \in names :
                           LET o == LatestAt(k, j, name)
                           IN  index[name] = <<analyses[o[1]].file_path,
                                               analyses[o[1]].definitions[o[2]]>>
           /\ Cardinality(DOMAIN all_definitions(<<>>, analyses)) =
                 Cardinality({Defn(o).name : o \in Occurrences})

\* A project in which a name is defined in two files has been analyzed.
C27_Witness ==
    /\ Returned
    /\ \E o, q \in Occurrences :
          /\ o[1] < q[1]
          /\ Defn(o).name = Defn(q).name
          /\ Defn(o) # Defn(q)
          /\ all_definitions(<<>>, Analyses(files))[Defn(o).name] =
                <<files[q[1]].path, Defn(q)>>

Placed(o) == Placement(o)[1] + Placement(o)[2] + Placement(o)[3]
\* The number of entries of all buckets together.
TotalEntries ==
    LET r == project.results
    IN  Len(r.private_unused) + Len(r.exported_but_unused)
        + Cardinality(UNION {{<<q, j>> : j \in DOMAIN r.single_file_dead_code[q]}
                                : q \in DOMAIN r.single_file_dead_code})
SameNameElsewhere(o, q) == o[1] # q[1] /\ Defn(o).name = Defn(q).name

\* C28: after analyze_project every definition occurrence has at most one
\* entry over the three buckets together, two unused definitions of one name
\* in different files have an entry each, and the buckets hold no more
\* entries than there are definitions.
C28_BucketsDisjoint ==
    Returned =>
       /\ \A o \in Occurrences : Placed(o) <= 1
       /\ \A o, q \in Occurrences :
             /\ SameNameElsewhere(o, q)
             /\ IsCandidate(o) /\ IsCandidate(q)
             /\ Defn(o).name \notin ImportedNames
             => Placed(o) = 1 /\ Placed(q) = 1
       /\ TotalEntries <= Cardinality(Occurrences)

\* A project with two unused definitions of one name in different files, one
\* of them private by its flag and of a public kind, has been analyzed.
C28_Witness ==
    /\ Returned
    /\ \E o, q \in Occurrences :
          /\ SameNameElsewhere(o, q)
          /\ Placed(o) = 1 /\ Placed(q) = 1
          /\ IsPrivateName(Defn(o)) /\ IsPublicKind(Defn(o))

\* The entries analyze_project reports for file i, over all buckets, reduced
\* to what identifies a definition.
Identity(e) == [name |-> e.name, kind |-> e.kind, line |-> e.line]
ProjectEntries(i) ==
    LET r == project.results
        path == files[i].path
        own == IF path \in DOMAIN r.single_file_dead_code
               THEN r.single_file_dead_code[path] ELSE <<>>
    IN  {Identity(r.private_unused[j]) :
            j \in {x \in DOMAIN r.private_unused : r.private_unused[x].file = path}}
        \cup
        {Identity(r.exported_but_unused[j]) :
            j \in {x \in DOMAIN r.exported_but_unused :
                      r.exported_but_unused[x].file = path}}
        \cup {Identity(own[j]) : j \in DOMAIN own}
\* The dead candidates analyze_single_file reports for file i.
SingleCandidates(i) ==
    LET c == analyze_single_file(files[i]).dead_candidates
    IN  {c[k] : k \in DOMAIN c}

\* C29: for every analyzed file of a project run, each entry of a bucket is a
\* dead candidate of analyze_single_file on that file, and a dead candidate
\* is in no bucket exactly when its name is a key of the global import index.
C29_ProjectRefinesSingle ==
    Returned =>
       \A i \in SourceFiles :
          /\ \A e \in ProjectEntries(i) :
                \E c \in SingleCandidates(i) : Identity(c) = e
          /\ \A c \in SingleCandidates(i) :
                Identity(c) \notin ProjectEntries(i) <=> c.name \in ImportedNames

\* A project has been analyzed in which one dead candidate of a file is
\* reported and another is left out because a file imports its name.
C29_Witness ==
    /\ Returned
    /\ \E i \in SourceFiles :
          \E c, d \in SingleCandidates(i) :
             /\ Identity(c) \in ProjectEntries(i)
             /\ Identity(d) \notin ProjectEntries(i)
             /\ d.name \in ImportedNames

\* ---------------------------------------------------------------------------
\* Claims about nested functions (SpecCx)
\* ---------------------------------------------------------------------------
\* The named functions of the tree, and the pairs <<f, g>> with g nested in f.
NamedFunctions ==
    {n \in 1..Len(tree) :
        tree[n].type \in {"function_definition", "function_declaration"}
        /\ tree[n].name # NONE}
NestedPairs ==
    {p \in NamedFunctions \X NamedFunctions : IsInside(tree, p[1], p[2])}
\* The entries of the report for the function that starts at node n.
ReportsOf(n) == {i \in Reported : Metrics(i).start_line = StartLine(tree, n)}

\* C30: when a named function g is nested in a named function f, both are
\* reported and the metrics of f dominate those of g: cyclomatic and cognitive
\* complexity are at least those of g and the nesting depth is at least one
\* more.
C30_OuterDominatesNested ==
    analysis.done =>
       \A p \in NestedPairs :
          /\ ReportsOf(p[1]) # {}
          /\ ReportsOf(p[2]) # {}
          /\ \A i \in ReportsOf(p[1]), j \in ReportsOf(p[2]) :
                /\ Metrics(i).cyclomatic_complexity >= Metrics(j).cyclomatic_complexity
                /\ Metrics(i).cognitive_complexity >= Metrics(j).cognitive_complexity
                /\ Metrics(i).max_nesting_depth >= Metrics(j).max_nesting_depth + 1

\* A Python function with a conditional has been analyzed together with the
\* function it is nested in.
C30_Witness ==
    /\ analysis.done
    /\ lang = "python"
    /\ \E p \in NestedPairs :
          \E j \in ReportsOf(p[2]) :
             /\ Metrics(j).cyclomatic_complexity >= 2
             /\ Metrics(j).cognitive_complexity >= 1

====
